---- MODULE Spec2Model ----
(***************************************************************************)
(* Model of the project-memory store (MemoryManager, memory-manager.ts as  *)
(* found in src/nodejs/src/types.ts lines 93-609): the in-memory           *)
(* ProjectMemory, the primary file, the context snapshot, the backups      *)
(* directory, the mutators and their save/backup path.                     *)
(*                                                                         *)
(* Timestamps (new Date().toISOString(), millisecond resolution) are       *)
(* natural numbers read from `clock`; 0 stands for a missing or empty      *)
(* (falsy) timestamp.  Between two clock reads separated by awaited file   *)
(* I/O the clock advances by 0 or 1; reads with no await between them see  *)
(* the same millisecond.                                                   *)
(*                                                                         *)
(* A JS object (Record<string, T>) is a sequence of [key, value] entries   *)
(* in insertion order.  An optional property is a record [own, val]:       *)
(* Missing (no such property), Undef (own property holding undefined),     *)
(* Some(x).  A file is <<>> when it does not exist and <<content>>         *)
(* otherwise.                                                              *)
(*                                                                         *)
(* Where the code tests the type of a value (Array.isArray, typeof) the    *)
(* value is a record [kind, items, entries]: kind is the JSON type, items  *)
(* the elements of an array, entries the named properties of an object (or *)
(* of an array that has been given named properties).  In a file every     *)
(* array is such a record; in memory the arrays that validation has        *)
(* checked are plain sequences, and working_solutions, which validation    *)
(* lets through as an array too, stays such a record.                      *)
(*                                                                         *)
(* The search routine (searchMemory, calculateRelevance) and the tool       *)
(* gateway (ProjectMemoryServer, src/nodejs/src/server.ts) follow the       *)
(* properties of the store, each with a specification of its own.           *)
(***************************************************************************)
EXTENDS Integers, Sequences, FiniteSets, TLC

VARIABLES
  phase,      \* "constructed" (memory not loaded yet) or "ready"
  config,     \* this.config
  memory,     \* this.memory
  memFile,    \* project_memory.json
  ctxFile,    \* current_context.json
  backups,    \* backups/ directory: timestamp of the file name -> content
  clock,      \* the last millisecond any call has read
  calls,      \* number of store calls made so far
  made,       \* number of backup files createBackup has written so far
  faulty,     \* number of calls so far in which a file operation failed
  last,       \* the last call: operation, arguments, injected faults, result
  inflight    \* the calls that have started, each with the file operation it awaits

vars == <<phase, config, memory, memFile, ctxFile, backups, clock, calls, made, faulty, last,
          inflight>>

---------------------------------------------------------------------------
(* Bounds of the model *)

MaxCalls == 2          \* calls after initialize() in one behaviour of Spec
MaxFaultyCalls == 1    \* calls in one behaviour in which a file operation fails
MaxHistory == 1        \* configured max_conversation_history ranges over 0..MaxHistory
MaxRandom == 0         \* Math.random() suffixes range over 0..MaxRandom
MaxDeepCalls == 15     \* calls after initialize() in one behaviour of SpecDeep
MaxGrowCalls == 7      \* calls after initialize() in one behaviour of SpecGrow

(* Program constants *)

DefaultMaxHistory == 100
DefaultBackupInterval == 3600
MaxBackups == 10
RecentCount == 5
StartClock == MaxBackups + 1   \* first millisecond of the run; what is stored is older

---------------------------------------------------------------------------
(* Optional properties and JSON *)

Missing == [own |-> FALSE, val |-> <<>>]
Undef == [own |-> TRUE, val |-> <<>>]
Some(x) == [own |-> TRUE, val |-> <<x>>]

\* JSON.stringify drops a property whose value is undefined
JsonOpt(o) == IF o.val = <<>> THEN Missing ELSE o

\* a ?? b
Coalesce(o, d) == IF o.val = <<>> THEN d ELSE o.val[1]

\* t || now, for a timestamp t
OrNow(t, now) == IF t = 0 THEN now ELSE t

\* Array.prototype.slice(start) for an integer start
SliceFrom(s, start) ==
  LET n == Len(s)
      from == IF start < 0
                THEN (IF n + start < 0 THEN 0 ELSE n + start)
                ELSE (IF start > n THEN n ELSE start)
  IN  SubSeq(s, from + 1, n)

\* obj[k] = v on an insertion-ordered object
ObjSet(obj, k, v) ==
  IF \E i \in 1..Len(obj) : obj[i].key = k
    THEN [i \in 1..Len(obj) |-> IF obj[i].key = k THEN [key |-> k, value |-> v] ELSE obj[i]]
    ELSE Append(obj, [key |-> k, value |-> v])


\* JSON values whose type the code tests
JsonValue(kind, items, entries) == [kind |-> kind, items |-> items, entries |-> entries]
JsonArray(items) == JsonValue("array", items, <<>>)
JsonObject(entries) == JsonValue("object", <<>>, entries)
JsonString == JsonValue("string", <<>>, <<>>)
JsonAbsent == JsonValue("undefined", <<>>, <<>>)

\* Array.isArray(v)
IsArray(v) == v.kind = "array"

\* v && typeof v === 'object'
IsObjectType(v) == v.kind \in {"array", "object"}

JsonComponent(e) == [key |-> e.key, value |-> [e.value EXCEPT !.details = JsonOpt(@)]]
JsonDecision(d) == [d EXCEPT !.impact = JsonOpt(@), !.alternatives = JsonOpt(@)]
JsonSolution(e) == [key |-> e.key, value |-> [e.value EXCEPT !.command = JsonOpt(@)]]
JsonConversation(c) == [c EXCEPT !.decisions_made = JsonOpt(@), !.solutions_found = JsonOpt(@)]

\* JSON.stringify of working_solutions: of an array only the elements are
\* written, its named properties are left out
JsonSolutions(ws) ==
  IF IsArray(ws)
    THEN [ws EXCEPT !.entries = <<>>]
    ELSE [ws EXCEPT !.entries = [i \in 1..Len(@) |-> JsonSolution(@[i])]]

\* what fs.writeJson(file, memory) leaves in the file
ToJson(m) ==
  [m EXCEPT
     !.implementation_status.components = [i \in 1..Len(@) |-> JsonComponent(@[i])],
     !.architecture.technologies = JsonArray(@),
     !.architecture.decisions = JsonArray([i \in 1..Len(@) |-> JsonDecision(@[i])]),
     !.working_solutions = JsonSolutions(@),
     !.current_priorities = JsonArray(@),
     !.conversations = JsonArray([i \in 1..Len(@) |-> JsonConversation(@[i])])]

\* what fs.writeJson(file, context) leaves in the file
ContextToJson(c) ==
  [c EXCEPT
     !.components = [i \in 1..Len(@) |-> JsonComponent(@[i])],
     !.priorities = JsonArray(@),
     !.technologies = JsonArray(@),
     !.recent_decisions = JsonArray([i \in 1..Len(@) |-> JsonDecision(@[i])]),
     !.solutions = JsonSolutions(@),
     !.recent_conversations = JsonArray([i \in 1..Len(@) |-> JsonConversation(@[i])])]

\* a file left truncated by a write that failed part-way
Corrupt == [corrupt |-> TRUE]

---------------------------------------------------------------------------
(* Construction: configuration and the ProjectMemory value *)

ProjectRoot == "/tmp/proj"
ProjectName == "proj"                  \* path.basename(projectRoot)
DetectedType == "Node.js/JavaScript"   \* what detectProjectType() finds in the project root

DefaultConfig ==
  [max_conversation_history |-> DefaultMaxHistory,
   backup_enabled |-> TRUE,
   backup_interval |-> DefaultBackupInterval,
   compression_enabled |-> FALSE,
   auto_detect_project_type |-> TRUE]

\* { ...defaultConfig, ...userConfig }
LoadConfig(configFile) ==
  IF configFile = <<>> THEN DefaultConfig ELSE configFile[1] @@ DefaultConfig

ProjectType(cfg) == IF cfg.auto_detect_project_type THEN DetectedType ELSE "unknown"

OrStr(s, d) == IF s = "" THEN d ELSE s

\* a default memory structure that detects the project type whatever the
\* configuration says
DefaultMemoryDetecting(cfg, now) ==
  [project_info |->
     [name |-> ProjectName, type |-> DetectedType, description |-> "",
      createdAt |-> now, lastUpdated |-> now],
   implementation_status |-> [overall_progress |-> "unknown", components |-> <<>>],
   architecture |-> [technologies |-> <<>>, decisions |-> <<>>],
   working_solutions |-> JsonObject(<<>>),
   current_priorities |-> <<>>,
   conversations |-> <<>>,
   metadata |-> [version |-> "1.0.0", created_at |-> now, last_updated |-> now]]

\* the default memory structure built at time now
DefaultMemory(cfg, now) ==
  [project_info |->
     [name |-> ProjectName, type |-> ProjectType(cfg), description |-> "",
      createdAt |-> now, lastUpdated |-> now],
   implementation_status |-> [overall_progress |-> "unknown", components |-> <<>>],
   architecture |-> [technologies |-> <<>>, decisions |-> <<>>],
   working_solutions |-> JsonObject(<<>>),
   current_priorities |-> <<>>,
   conversations |-> <<>>,
   metadata |-> [version |-> "1.0.0", created_at |-> now, last_updated |-> now]]

\* Array.isArray(v) ? v : []
ArrayOrEmpty(v) == IF IsArray(v) THEN v.items ELSE <<>>

\* a validation that stamps the creation time anew on every load
validateStampingAnew(cfg, raw, now) ==
  [project_info |->
     [name |-> OrStr(raw.project_info.name, ProjectName),
      type |-> OrStr(raw.project_info.type, ProjectType(cfg)),
      description |-> OrStr(raw.project_info.description, ""),
      createdAt |-> now,
      lastUpdated |-> OrNow(raw.project_info.lastUpdated, now)],
   implementation_status |->
     [overall_progress |-> OrStr(raw.implementation_status.overall_progress, "unknown"),
      components |-> raw.implementation_status.components],
   architecture |->
     [technologies |-> ArrayOrEmpty(raw.architecture.technologies),
      decisions |-> ArrayOrEmpty(raw.architecture.decisions)],
   working_solutions |->
     IF IsObjectType(raw.working_solutions) THEN raw.working_solutions
                                            ELSE JsonObject(<<>>),
   current_priorities |-> ArrayOrEmpty(raw.current_priorities),
   conversations |-> ArrayOrEmpty(raw.conversations),
   metadata |->
     [version |-> OrStr(raw.metadata.version, "1.0.0"),
      created_at |-> now,
      last_updated |-> now]]

\* raw is what readJson returned: an object in which a missing scalar reads
\* as "" or 0 (falsy) and a missing components as the empty object
validateAndMigrateMemory(cfg, raw, now) ==
  [project_info |->
     [name |-> OrStr(raw.project_info.name, ProjectName),
      type |-> OrStr(raw.project_info.type, ProjectType(cfg)),
      description |-> OrStr(raw.project_info.description, ""),
      createdAt |-> OrNow(raw.project_info.createdAt, now),
      lastUpdated |-> OrNow(raw.project_info.lastUpdated, now)],
   implementation_status |->
     [overall_progress |-> OrStr(raw.implementation_status.overall_progress, "unknown"),
      components |-> raw.implementation_status.components],
   architecture |->
     [technologies |-> ArrayOrEmpty(raw.architecture.technologies),
      decisions |-> ArrayOrEmpty(raw.architecture.decisions)],
   working_solutions |->
     IF IsObjectType(raw.working_solutions) THEN raw.working_solutions
                                            ELSE JsonObject(<<>>),
   current_priorities |-> ArrayOrEmpty(raw.current_priorities),
   conversations |-> ArrayOrEmpty(raw.conversations),
   metadata |->
     [version |-> OrStr(raw.metadata.version, "1.0.0"),
      created_at |-> OrNow(raw.metadata.created_at, now),
      last_updated |-> now]]

\* a loadMemory without its try/catch: what cannot be parsed leaves no memory
loadMemoryUnguarded(cfg, file, now) ==
  IF file = <<>>
    THEN DefaultMemory(cfg, now)
    ELSE IF file[1] = Corrupt THEN [uninitialized |-> TRUE]
                              ELSE validateAndMigrateMemory(cfg, file[1], now)

\* loadMemory: the file when it exists and parses, the default structure otherwise
loadMemory(cfg, file, now) ==
  IF file # <<>> /\ file[1] # Corrupt
    THEN validateAndMigrateMemory(cfg, file[1], now)
    ELSE DefaultMemory(cfg, now)

\* a getCurrentContext that reports the oldest entries, slice(0, 5)
getCurrentContextOldest(m) ==
  [project_name |-> m.project_info.name,
   project_type |-> m.project_info.type,
   project_description |-> m.project_info.description,
   project_root |-> ProjectRoot,
   overall_progress |-> m.implementation_status.overall_progress,
   components |-> m.implementation_status.components,
   priorities |-> m.current_priorities,
   technologies |-> m.architecture.technologies,
   recent_decisions |-> SubSeq(m.architecture.decisions, 1,
                               IF Len(m.architecture.decisions) < RecentCount
                                 THEN Len(m.architecture.decisions) ELSE RecentCount),
   solutions |-> m.working_solutions,
   recent_conversations |-> SubSeq(m.conversations, 1,
                                   IF Len(m.conversations) < RecentCount
                                     THEN Len(m.conversations) ELSE RecentCount),
   last_updated |-> m.metadata.last_updated]

getCurrentContext(m) ==
  [project_name |-> m.project_info.name,
   project_type |-> m.project_info.type,
   project_description |-> m.project_info.description,
   project_root |-> ProjectRoot,
   overall_progress |-> m.implementation_status.overall_progress,
   components |-> m.implementation_status.components,
   priorities |-> m.current_priorities,
   technologies |-> m.architecture.technologies,
   recent_decisions |-> SliceFrom(m.architecture.decisions, -RecentCount),
   solutions |-> m.working_solutions,
   recent_conversations |-> SliceFrom(m.conversations, -RecentCount),
   last_updated |-> m.metadata.last_updated]

\* an id made of the random part alone
generateIdUntimed(now, rnd) == [t |-> 0, r |-> rnd]

\* Date.now().toString(36) + Math.random().toString(36).substr(2)
generateId(now, rnd) == [t |-> now, r |-> rnd]

---------------------------------------------------------------------------
(* Files found on disk when the store is constructed *)

\* a record as an earlier run of the store saved it at millisecond t
StoredDecision(t) ==
  [id |-> generateId(t, 0), decision |-> "Use React", rationale |-> "team knows it",
   impact |-> Missing, alternatives |-> Missing, date |-> t, tags |-> <<>>]

StoredConversation(t) ==
  [id |-> generateId(t, 0), summary |-> "kickoff", decisions_made |-> Missing,
   solutions_found |-> Missing, date |-> t]

\* project_memory.json written by an earlier run
StoredMemory ==
  [project_info |->
     [name |-> "legacy", type |-> "Python", description |-> "old project",
      createdAt |-> 1, lastUpdated |-> 1],
   implementation_status |-> [overall_progress |-> "50%", components |-> <<>>],
   architecture |-> [technologies |-> JsonArray(<<"typescript">>),
                     decisions |-> JsonArray(<<StoredDecision(2)>>)],
   working_solutions |-> JsonObject(<<>>),
   current_priorities |-> JsonArray(<<"setup tests">>),
   conversations |-> JsonArray(<<StoredConversation(3)>>),
   metadata |-> [version |-> "0.9.0", created_at |-> 1, last_updated |-> 3]]

\* a hand-edited file whose scalar fields are empty or missing
SparseMemory ==
  [project_info |->
     [name |-> "", type |-> "", description |-> "", createdAt |-> 0, lastUpdated |-> 0],
   implementation_status |-> [overall_progress |-> "", components |-> <<>>],
   architecture |-> [technologies |-> JsonArray(<<>>), decisions |-> JsonArray(<<>>)],
   working_solutions |-> JsonObject(<<>>),
   current_priorities |-> JsonArray(<<>>),
   conversations |-> JsonArray(<<StoredConversation(3)>>),
   metadata |-> [version |-> "", created_at |-> 0, last_updated |-> 0]]

\* a file written by another tool: the containers are of the wrong JSON type
\* or missing, working_solutions is a list
MalformedMemory ==
  [project_info |->
     [name |-> "legacy", type |-> "Python", description |-> "",
      createdAt |-> 1, lastUpdated |-> 1],
   implementation_status |-> [overall_progress |-> "50%", components |-> <<>>],
   architecture |-> [technologies |-> JsonString,
                     decisions |-> JsonObject(<<>>)],
   working_solutions |-> JsonArray(<<>>),
   current_priorities |-> JsonAbsent,
   conversations |-> JsonString,
   metadata |-> [version |-> "0.9.0", created_at |-> 1, last_updated |-> 3]]

\* backups/ as earlier runs left it: empty, or holding the retained MaxBackups files
OldBackups == [t \in 1..MaxBackups |-> StoredMemory]
NoBackups == [t \in {} |-> StoredMemory]

\* what the constructor finds: a config file, project_memory.json, backups/
Deployments ==
  {[configFile |-> <<>>, memFile |-> <<>>, backups |-> NoBackups],
   [configFile |-> <<>>, memFile |-> <<StoredMemory>>, backups |-> OldBackups],
   [configFile |-> <<[backup_enabled |-> FALSE]>>, memFile |-> <<Corrupt>>,
    backups |-> NoBackups],
   [configFile |-> <<>>, memFile |-> <<MalformedMemory>>, backups |-> NoBackups]}
    \cup {[configFile |-> <<[max_conversation_history |-> m]>>,
           memFile |-> <<SparseMemory>>, backups |-> NoBackups] : m \in 0..MaxHistory}

---------------------------------------------------------------------------
(* Results of a call *)

Returned(v) == [ok |-> TRUE, error |-> "", detail |-> <<>>, value |-> v]
Thrown(e, d) == [ok |-> FALSE, error |-> e, detail |-> d, value |-> <<>>]

ValidScopes == <<"all", "decisions", "solutions", "conversations", "components">>

---------------------------------------------------------------------------
(* Persistence.  A world is the store and its files in the middle of a call: *)
(* [memory, memFile, ctxFile, backups, clock, made, preHit, hit, result],   *)
(* where made counts the backup files written, hit is the fault the call's  *)
(* save has run into, preHit the fault of clearMemory's own backup, and     *)
(* result what the call returns or throws.                                  *)
(* A fault names the file operation that fails:                             *)
(*   memWrite / ctxWrite / bkWrite   the write fails leaving the file as it *)
(*                                   was (it could not be opened)           *)
(*   ...Trunc                        the write fails after truncating       *)
(*   ensureDir, readdir, remove      that call of createBackup fails        *)

BackupFaults == {"none", "ensureDir", "bkWrite", "bkWriteTrunc", "readdir", "remove"}
SaveFaults == BackupFaults \cup {"memWrite", "memWriteTrunc", "ctxWrite", "ctxWriteTrunc"}

\* the names that survive sort().reverse() followed by the removal of slice(10)
Newest(names) == {s \in names : Cardinality({t \in names : t > s}) < MaxBackups}

PutFile(dir, name, content) ==
  [t \in DOMAIN dir \cup {name} |-> IF t = name THEN content ELSE dir[t]]

\* the try block of createBackup, reading the clock d milliseconds after the
\* world's last read
TryBackup(w, d, fault) ==
  LET stamp == w.clock + d
      written == PutFile(w.backups, stamp, ToJson(w.memory))
      prunes == DOMAIN written # Newest(DOMAIN written)
  IN  CASE fault = "ensureDir" ->
             [w EXCEPT !.hit = fault, !.result = Thrown(fault, <<>>)]
        [] fault = "bkWrite" ->
             [w EXCEPT !.clock = stamp, !.hit = fault, !.result = Thrown(fault, <<>>)]
        [] fault = "bkWriteTrunc" ->
             [w EXCEPT !.clock = stamp, !.hit = fault, !.result = Thrown(fault, <<>>),
                       !.backups = PutFile(w.backups, stamp, Corrupt)]
        [] fault = "readdir" ->
             [w EXCEPT !.clock = stamp, !.hit = fault, !.result = Thrown(fault, <<>>),
                       !.backups = written, !.made = @ + 1]
        [] fault = "remove" /\ prunes ->
             [w EXCEPT !.clock = stamp, !.hit = fault, !.result = Thrown(fault, <<>>),
                       !.backups = written, !.made = @ + 1]
        [] OTHER ->
             [w EXCEPT !.clock = stamp, !.made = @ + 1,
                       !.backups = [t \in Newest(DOMAIN written) |-> written[t]]]

\* a createBackup that lets the error of its try block escape
createBackupRethrow(w, d, fault) == TryBackup(w, d, fault)

\* createBackup: the try block, and a catch that only logs
createBackup(w, d, fault) == [TryBackup(w, d, fault) EXCEPT !.result = w.result]

\* a saveMemory that writes the context snapshot before the primary file
saveMemorySnapshotFirst(w, cfg, fault) ==
  LET m1 == [w.memory EXCEPT !.metadata.last_updated = w.clock]
      w1 == [w EXCEPT !.memory = m1]
      w2 == [w1 EXCEPT !.ctxFile = <<ContextToJson(getCurrentContext(m1))>>]
      w3 == [w2 EXCEPT !.memFile = <<ToJson(m1)>>]
  IN  CASE fault = "ctxWrite" ->
             [w1 EXCEPT !.hit = fault, !.result = Thrown(fault, <<>>)]
        [] fault = "ctxWriteTrunc" ->
             [w1 EXCEPT !.hit = fault, !.result = Thrown(fault, <<>>),
                        !.ctxFile = <<Corrupt>>]
        [] fault = "memWrite" ->
             [w2 EXCEPT !.hit = fault, !.result = Thrown(fault, <<>>)]
        [] fault = "memWriteTrunc" ->
             [w2 EXCEPT !.hit = fault, !.result = Thrown(fault, <<>>),
                        !.memFile = <<Corrupt>>]
        [] OTHER ->
             IF cfg.backup_enabled THEN createBackup(w3, 0, fault) ELSE w3

\* saveMemory, entered in the millisecond w.clock
saveMemory(w, cfg, fault) ==
  LET m1 == [w.memory EXCEPT !.metadata.last_updated = w.clock]
      w1 == [w EXCEPT !.memory = m1]
      w2 == [w1 EXCEPT !.memFile = <<ToJson(m1)>>]
      w3 == [w2 EXCEPT !.ctxFile = <<ContextToJson(getCurrentContext(m1))>>]
  IN  CASE fault = "memWrite" ->
             [w1 EXCEPT !.hit = fault, !.result = Thrown(fault, <<>>)]
        [] fault = "memWriteTrunc" ->
             [w1 EXCEPT !.hit = fault, !.result = Thrown(fault, <<>>),
                        !.memFile = <<Corrupt>>]
        [] fault = "ctxWrite" ->
             [w2 EXCEPT !.hit = fault, !.result = Thrown(fault, <<>>)]
        [] fault = "ctxWriteTrunc" ->
             [w2 EXCEPT !.hit = fault, !.result = Thrown(fault, <<>>),
                        !.ctxFile = <<Corrupt>>]
        [] OTHER ->
             IF cfg.backup_enabled THEN createBackup(w3, 0, fault) ELSE w3

---------------------------------------------------------------------------
(* The mutators, as functions of the world in which the call starts.  a is  *)
(* the argument record, fault the fault the save runs into.                 *)

\* an updateImplementationStatus that replaces the whole components object
updateImplementationStatusAlone(w, cfg, a, fault) ==
  LET rec == [status |-> a.status, progress |-> Coalesce(a.progress, 0),
              details |-> a.details, lastUpdated |-> w.clock]
  IN  saveMemory([w EXCEPT !.memory.implementation_status.components =
                              ObjSet(<<>>, a.component, rec)],
                 cfg, fault)

\* an updateImplementationStatus that merges into the stored record: details
\* left out keep the stored details
updateImplementationStatusMerged(w, cfg, a, fault) ==
  LET comps == w.memory.implementation_status.components
      kept == IF a.details.val = <<>>
                   /\ \E i \in 1..Len(comps) : comps[i].key = a.component
                THEN (CHOOSE e \in {comps[i] : i \in 1..Len(comps)} :
                        e.key = a.component).value.details
                ELSE a.details
      rec == [status |-> a.status, progress |-> Coalesce(a.progress, 0),
              details |-> kept, lastUpdated |-> w.clock]
  IN  saveMemory([w EXCEPT !.memory.implementation_status.components =
                              ObjSet(@, a.component, rec)],
                 cfg, fault)

updateImplementationStatus(w, cfg, a, fault) ==
  LET rec == [status |-> a.status, progress |-> Coalesce(a.progress, 0),
              details |-> a.details, lastUpdated |-> w.clock]
  IN  saveMemory([w EXCEPT !.memory.implementation_status.components =
                              ObjSet(@, a.component, rec)],
                 cfg, fault)

\* an addArchitectureDecision that keeps the newest decision first
addArchitectureDecisionFirst(w, cfg, a, rnd, fault) ==
  LET newDecision == [id |-> generateId(w.clock, rnd), decision |-> a.decision,
                      rationale |-> a.rationale, impact |-> a.impact,
                      alternatives |-> a.alternatives, date |-> w.clock, tags |-> <<>>]
  IN  saveMemory([w EXCEPT !.memory.architecture.decisions = <<newDecision>> \o @],
                 cfg, fault)

addArchitectureDecision(w, cfg, a, rnd, fault) ==
  LET newDecision == [id |-> generateId(w.clock, rnd), decision |-> a.decision,
                      rationale |-> a.rationale, impact |-> a.impact,
                      alternatives |-> a.alternatives, date |-> w.clock, tags |-> <<>>]
  IN  saveMemory([w EXCEPT !.memory.architecture.decisions = Append(@, newDecision)],
                 cfg, fault)

\* an addWorkingSolution that counts a repeated problem on the stored record
addWorkingSolutionCounting(w, cfg, a, rnd, fault) ==
  LET id == generateId(w.clock, rnd)
      newSolution == [id |-> id, problem |-> a.problem, solution |-> a.solution,
                      command |-> a.command, tags |-> Coalesce(a.tags, <<>>),
                      date |-> w.clock, successCount |-> 1]
      stored == w.memory.working_solutions.entries
  IN  IF \E i \in 1..Len(stored) : stored[i].value.problem = a.problem
        THEN saveMemory([w EXCEPT !.memory.working_solutions.entries =
                           [i \in 1..Len(stored) |->
                              IF stored[i].value.problem = a.problem
                                THEN [stored[i] EXCEPT !.value.successCount = @ + 1]
                                ELSE stored[i]]],
                        cfg, fault)
        ELSE saveMemory([w EXCEPT !.memory.working_solutions.entries =
                           ObjSet(@, id, newSolution)],
                        cfg, fault)

addWorkingSolution(w, cfg, a, rnd, fault) ==
  LET id == generateId(w.clock, rnd)
      newSolution == [id |-> id, problem |-> a.problem, solution |-> a.solution,
                      command |-> a.command, tags |-> Coalesce(a.tags, <<>>),
                      date |-> w.clock, successCount |-> 1]
  IN  saveMemory([w EXCEPT !.memory.working_solutions.entries =
                              ObjSet(@, id, newSolution)],
                 cfg, fault)

\* updatePriorities without its saveMemory call
updatePrioritiesUnsaved(w, cfg, priorities, fault) ==
  [w EXCEPT !.memory.current_priorities = priorities]

\* updatePriorities that puts the old priorities back when the save throws
updatePrioritiesRollback(w, cfg, priorities, fault) ==
  LET r == saveMemory([w EXCEPT !.memory.current_priorities = priorities], cfg, fault)
  IN  IF r.result.ok THEN r ELSE [r EXCEPT !.memory = w.memory]

updatePriorities(w, cfg, priorities, fault) ==
  saveMemory([w EXCEPT !.memory.current_priorities = priorities], cfg, fault)

\* push, then slice(-max) when the length exceeds max
CapConversations(convs, max) ==
  IF Len(convs) > max THEN SliceFrom(convs, -max) ELSE convs

logConversationContext(w, cfg, a, rnd, fault) ==
  LET context == [id |-> generateId(w.clock, rnd), summary |-> a.summary,
                  decisions_made |-> a.decisions_made,
                  solutions_found |-> a.solutions_found, date |-> w.clock]
  IN  saveMemory([w EXCEPT !.memory.conversations =
                              CapConversations(Append(@, context),
                                               cfg.max_conversation_history)],
                 cfg, fault)

\* a reset that builds the default structure anew, creation times included
ClearAllAnew(m, cfg, now) == DefaultMemory(cfg, now)

\* case 'all' of clearMemory
ClearAll(m, cfg, now) ==
  [project_info |->
     [name |-> ProjectName, type |-> ProjectType(cfg), description |-> "",
      createdAt |-> OrNow(m.project_info.createdAt, now), lastUpdated |-> now],
   implementation_status |-> [overall_progress |-> "unknown", components |-> <<>>],
   architecture |-> [technologies |-> <<>>, decisions |-> <<>>],
   working_solutions |-> JsonObject(<<>>),
   current_priorities |-> <<>>,
   conversations |-> <<>>,
   metadata |-> [version |-> "1.0.0",
                 created_at |-> OrNow(m.metadata.created_at, now),
                 last_updated |-> now]]

\* a switch whose case 'decisions' lacks its break and runs on into 'solutions'
ClearScopeFallThrough(m, cfg, scope, now) ==
  CASE scope = "all" -> ClearAll(m, cfg, now)
    [] scope = "decisions" ->
         [m EXCEPT !.architecture.decisions = <<>>, !.working_solutions = JsonObject(<<>>)]
    [] scope = "solutions" -> [m EXCEPT !.working_solutions = JsonObject(<<>>)]
    [] scope = "conversations" -> [m EXCEPT !.conversations = <<>>]
    [] scope = "components" ->
         [m EXCEPT !.implementation_status.components = <<>>,
                   !.implementation_status.overall_progress = "unknown"]

\* the switch of clearMemory; scope is one of ValidScopes
ClearScope(m, cfg, scope, now) ==
  CASE scope = "all" -> ClearAll(m, cfg, now)
    [] scope = "decisions" -> [m EXCEPT !.architecture.decisions = <<>>]
    [] scope = "solutions" -> [m EXCEPT !.working_solutions = JsonObject(<<>>)]
    [] scope = "conversations" -> [m EXCEPT !.conversations = <<>>]
    [] scope = "components" ->
         [m EXCEPT !.implementation_status.components = <<>>,
                   !.implementation_status.overall_progress = "unknown"]

IsValidScope(scope) == \E i \in 1..Len(ValidScopes) : ValidScopes[i] = scope

\* the message clearMemory returns
ClearMessage(scope, createBk) ==
  [scope |-> scope, backupMsg |-> IF createBk THEN " (backup created)" ELSE ""]

\* an error message that leaves the scope out
UnknownScopeUnnamed(scope) ==
  Thrown("Unknown scope", [scope |-> "", use |-> ValidScopes])

\* the default arm of the switch
UnknownScope(scope) ==
  Thrown("Unknown scope", [scope |-> scope, use |-> ValidScopes])

\* a.scope, a.createBackup; dpre and preFault are the time and the fault of the
\* backup taken before the switch
clearMemory(w, cfg, a, dpre, preFault, fault) ==
  LET b == IF a.createBackup THEN createBackup(w, 0, preFault) ELSE w
      w1 == [b EXCEPT !.preHit = b.hit, !.hit = "none",
                      !.clock = IF a.createBackup THEN @ + dpre ELSE @]
  IN  IF IsValidScope(a.scope)
        THEN saveMemory([w1 EXCEPT
                           !.memory = ClearScope(@, cfg, a.scope, w1.clock),
                           !.result = Returned(<<ClearMessage(a.scope, a.createBackup)>>)],
                        cfg, fault)
        ELSE [w1 EXCEPT !.result = UnknownScope(a.scope)]

---------------------------------------------------------------------------
(* Inputs *)

Delays == 0..1
RandomValues == 0..MaxRandom

ComponentInputs ==
  {[component |-> "api", status |-> "complete", details |-> Undef, progress |-> Some(100)],
   [component |-> "api", status |-> "in_progress", details |-> Some("wip"), progress |-> Undef]}

DecisionInputs ==
  {[decision |-> "Use PostgreSQL", rationale |-> "ACID compliance",
    impact |-> Undef, alternatives |-> Undef]}

SolutionInputs ==
  {[problem |-> "build fails", solution |-> "clear cache",
    command |-> Some("npm ci"), tags |-> Undef]}

PriorityInputs == {<<>>, <<"ship v1">>}

ConversationInputs ==
  {[summary |-> "standup", decisions_made |-> Undef, solutions_found |-> Some(<<"fix">>)]}

ScopeInputs == {"all", "decisions", "solutions", "conversations", "components", "bogus"}

InitFaults == {"none", "ensureDir", "readJson"}

\* at most one file operation fails in a call of clearMemory
ClearFaults == {<<pf, f>> \in BackupFaults \X SaveFaults : pf = "none" \/ f = "none"}

\* the faults a call may still run into
Allowed(faults, none) == IF faulty < MaxFaultyCalls THEN faults ELSE {none}

---------------------------------------------------------------------------
(* State machine *)

\* the store and its files, as a call finds them
Snapshot == [memory |-> memory, memFile |-> memFile, ctxFile |-> ctxFile,
             backups |-> backups]

NoCall == [op |-> "none", args |-> <<>>, pre |-> <<>>, preHit |-> "none",
           hit |-> "none", result |-> Returned(<<>>)]

Init ==
  /\ phase = "constructed"
  /\ \E dep \in Deployments :
       /\ config = LoadConfig(dep.configFile)
       /\ memFile = dep.memFile
       /\ backups = dep.backups
  /\ memory = [uninitialized |-> TRUE]
  /\ ctxFile = <<>>
  /\ clock = StartClock
  /\ calls = 0
  /\ made = 0
  /\ faulty = 0
  /\ inflight = <<>>
  /\ last = NoCall

\* initialize(): ensureDir, then loadMemory
Initialize(fault) ==
  /\ phase = "constructed"
  /\ IF fault = "ensureDir"
       THEN /\ last' = [NoCall EXCEPT !.op = "initialize", !.hit = fault,
                                      !.result = Thrown(fault, <<>>)]
            /\ UNCHANGED <<phase, memory>>
       ELSE /\ phase' = "ready"
            /\ memory' = loadMemory(config,
                                    IF fault = "readJson" THEN <<>> ELSE memFile, clock)
            /\ last' = [NoCall EXCEPT !.op = "initialize",
                          !.hit = IF fault = "readJson" /\ memFile # <<>>
                                    THEN fault ELSE "none"]
  /\ UNCHANGED <<config, memFile, ctxFile, backups, clock, calls, made, faulty, inflight>>

\* the world in which a call starts, d0 milliseconds after the last clock read
Begin(d0) ==
  [memory |-> memory, memFile |-> memFile, ctxFile |-> ctxFile, backups |-> backups,
   clock |-> clock + d0, made |-> made, preHit |-> "none", hit |-> "none",
   result |-> Returned(<<>>)]

\* the call is over: its world becomes the state
Finish(op, a, w) ==
  /\ memory' = w.memory
  /\ memFile' = w.memFile
  /\ ctxFile' = w.ctxFile
  /\ backups' = w.backups
  /\ clock' = w.clock
  /\ made' = w.made
  /\ calls' = calls + 1
  /\ faulty' = IF w.hit = "none" /\ w.preHit = "none" THEN faulty ELSE faulty + 1
  /\ last' = [op |-> op, args |-> a, pre |-> <<Snapshot>>, preHit |-> w.preHit,
              hit |-> w.hit, result |-> w.result]
  /\ UNCHANGED <<phase, config, inflight>>

UpdateImplementationStatus(a, d0, fault) ==
  /\ phase = "ready"
  /\ Finish("updateImplementationStatus", a,
            updateImplementationStatus(Begin(d0), config, a, fault))

AddArchitectureDecision(a, rnd, d0, fault) ==
  /\ phase = "ready"
  /\ Finish("addArchitectureDecision", a,
            addArchitectureDecision(Begin(d0), config, a, rnd, fault))

AddWorkingSolution(a, rnd, d0, fault) ==
  /\ phase = "ready"
  /\ Finish("addWorkingSolution", a,
            addWorkingSolution(Begin(d0), config, a, rnd, fault))

UpdatePriorities(p, d0, fault) ==
  /\ phase = "ready"
  /\ Finish("updatePriorities", [priorities |-> p],
            updatePriorities(Begin(d0), config, p, fault))

LogConversationContext(a, rnd, d0, fault) ==
  /\ phase = "ready"
  /\ Finish("logConversationContext", a,
            logConversationContext(Begin(d0), config, a, rnd, fault))

ClearMemory(scope, createBk, d0, dpre, preFault, fault) ==
  /\ phase = "ready"
  /\ Finish("clearMemory", [scope |-> scope, createBackup |-> createBk],
            clearMemory(Begin(d0), config, [scope |-> scope, createBackup |-> createBk],
                        dpre, preFault, fault))

\* a getCurrentContext that refreshes the snapshot file as it reads
GetCurrentContextSaving ==
  /\ phase = "ready"
  /\ calls' = calls + 1
  /\ last' = [NoCall EXCEPT !.op = "getCurrentContext", !.pre = <<Snapshot>>,
                            !.result = Returned(<<getCurrentContext(memory)>>)]
  /\ ctxFile' = <<ContextToJson(getCurrentContext(memory))>>
  /\ UNCHANGED <<phase, config, memory, memFile, backups, clock, made, faulty, inflight>>

\* a pure read: nothing but the record of the call changes
GetCurrentContext ==
  /\ phase = "ready"
  /\ calls' = calls + 1
  /\ last' = [NoCall EXCEPT !.op = "getCurrentContext", !.pre = <<Snapshot>>,
                            !.result = Returned(<<getCurrentContext(memory)>>)]
  /\ UNCHANGED <<phase, config, memory, memFile, ctxFile, backups, clock, made, faulty, inflight>>

\* a further call may be made
More == calls < MaxCalls

Next ==
  \/ \E f \in InitFaults : Initialize(f)
  \/ More /\ \E a \in ComponentInputs, d0 \in Delays, f \in Allowed(SaveFaults, "none") :
               UpdateImplementationStatus(a, d0, f)
  \/ More /\ \E a \in DecisionInputs, r \in RandomValues, d0 \in Delays,
                f \in Allowed(SaveFaults, "none") :
               AddArchitectureDecision(a, r, d0, f)
  \/ More /\ \E a \in SolutionInputs, r \in RandomValues, d0 \in Delays,
                f \in Allowed(SaveFaults, "none") :
               AddWorkingSolution(a, r, d0, f)
  \/ More /\ \E p \in PriorityInputs, d0 \in Delays, f \in Allowed(SaveFaults, "none") :
               UpdatePriorities(p, d0, f)
  \/ More /\ \E a \in ConversationInputs, r \in RandomValues, d0 \in Delays,
                f \in Allowed(SaveFaults, "none") :
               LogConversationContext(a, r, d0, f)
  \/ More /\ \E s \in ScopeInputs, d0 \in Delays, f \in Allowed(SaveFaults, "none") :
               ClearMemory(s, FALSE, d0, 0, "none", f)
  \/ More /\ \E s \in ScopeInputs, d0, dpre \in Delays,
                ff \in Allowed(ClearFaults, <<"none", "none">>) :
               ClearMemory(s, TRUE, d0, dpre, ff[1], ff[2])
  \/ More /\ GetCurrentContext

Spec == Init /\ [][Next]_vars

---------------------------------------------------------------------------
(* A second specification: a fresh store on an empty directory, no file     *)
(* operation ever fails, and one mutator is called again and again, each    *)
(* call in the millisecond of the previous one or in the next.              *)

InitDeep ==
  /\ Init
  /\ config = DefaultConfig
  /\ memFile = <<>>
  /\ backups = NoBackups

NextDeep ==
  \/ Initialize("none")
  \/ calls < MaxDeepCalls /\ \E d0 \in Delays : UpdatePriorities(<<>>, d0, "none")

SpecDeep == InitDeep /\ [][NextDeep]_vars

---------------------------------------------------------------------------
(* A third specification: a store without backups that starts from the      *)
(* default structure and only grows, each call a millisecond after the      *)
(* previous one, no file operation failing; its context is read in between. *)

InitGrow ==
  /\ Init
  /\ ~config.backup_enabled

MoreGrowth == calls < MaxGrowCalls

NextGrow ==
  \/ Initialize("none")
  \/ MoreGrowth /\ \E a \in DecisionInputs, r \in RandomValues :
                     AddArchitectureDecision(a, r, 1, "none")
  \/ MoreGrowth /\ \E a \in ConversationInputs, r \in RandomValues :
                     LogConversationContext(a, r, 1, "none")
  \/ MoreGrowth /\ GetCurrentContext

SpecGrow == InitGrow /\ [][NextGrow]_vars

---------------------------------------------------------------------------
(* Vocabulary of the properties *)

Mutators ==
  {"updateImplementationStatus", "addArchitectureDecision", "addWorkingSolution",
   "updatePriorities", "logConversationContext", "clearMemory"}

\* the store and its files as the last call found them
Pre == last.pre[1]

\* the files hold the in-memory state
InSync ==
  /\ memFile = <<ToJson(memory)>>
  /\ ctxFile = <<ContextToJson(getCurrentContext(memory))>>

PreInSync ==
  /\ Pre.memFile = <<ToJson(Pre.memory)>>
  /\ Pre.ctxFile = <<ContextToJson(getCurrentContext(Pre.memory))>>

WriteFaults == {"memWrite", "memWriteTrunc", "ctxWrite", "ctxWriteTrunc"}
BackupFailures == BackupFaults \ {"none"}

LastEntry(obj) == obj[Len(obj)]

\* the in-memory state shows the effect of the last call, a mutator
MutationApplied ==
  LET a == last.args
      m == memory
  IN  CASE last.op = "updateImplementationStatus" ->
             \E i \in 1..Len(m.implementation_status.components) :
               LET e == m.implementation_status.components[i]
               IN  /\ e.key = a.component
                   /\ e.value.status = a.status
                   /\ e.value.details = a.details
                   /\ e.value.progress = (IF a.progress.val = <<>> THEN 0 ELSE a.progress.val[1])
        [] last.op = "addArchitectureDecision" ->
             /\ Len(m.architecture.decisions) = Len(Pre.memory.architecture.decisions) + 1
             /\ LastEntry(m.architecture.decisions).decision = a.decision
             /\ LastEntry(m.architecture.decisions).rationale = a.rationale
        [] last.op = "addWorkingSolution" ->
             \E i \in 1..Len(m.working_solutions.entries) :
               /\ m.working_solutions.entries[i].value.problem = a.problem
               /\ m.working_solutions.entries[i].value.solution = a.solution
               /\ m.working_solutions.entries[i].value.date = m.metadata.last_updated
        [] last.op = "updatePriorities" -> m.current_priorities = a.priorities
        [] last.op = "logConversationContext" ->
             /\ Len(m.conversations) > 0
             /\ LastEntry(m.conversations).summary = a.summary
             /\ LastEntry(m.conversations).date = m.metadata.last_updated
        [] last.op = "clearMemory" ->
             /\ a.scope \in {"all", "decisions"} => m.architecture.decisions = <<>>
             /\ a.scope \in {"all", "solutions"} => m.working_solutions = JsonObject(<<>>)
             /\ a.scope \in {"all", "conversations"} => m.conversations = <<>>
             /\ a.scope \in {"all", "components"} =>
                  m.implementation_status.components = <<>>
             /\ a.scope = "all" => m.current_priorities = <<>>

---------------------------------------------------------------------------
(* Properties *)

WriteFailureKeepsMutation ==
  (last.op \in Mutators /\ last.hit \in WriteFaults) =>
    /\ ~last.result.ok
    /\ last.result.error = last.hit
    /\ MutationApplied
    /\ memory.metadata.last_updated = clock
    /\ last.hit \in {"memWrite", "memWriteTrunc"} =>
         /\ memFile \in {Pre.memFile, <<Corrupt>>}
         /\ ctxFile = Pre.ctxFile
         /\ (PreInSync /\ ToJson(memory) # ToJson(Pre.memory)) =>
              memFile # <<ToJson(memory)>>
    /\ last.hit \in {"ctxWrite", "ctxWriteTrunc"} =>
         /\ memFile = <<ToJson(memory)>>
         /\ ctxFile \in {Pre.ctxFile, <<Corrupt>>}
         /\ (PreInSync /\ ContextToJson(getCurrentContext(memory))
                           # ContextToJson(getCurrentContext(Pre.memory))) =>
              ctxFile # <<ContextToJson(getCurrentContext(memory))>>
    /\ (last.op # "clearMemory" \/ ~last.args.createBackup) => backups = Pre.backups

WriteFailureKeepsMutationSeen ==
  /\ last.op = "updateImplementationStatus"
  /\ last.hit = "memWrite"
  /\ PreInSync
  /\ memory.implementation_status.components # Pre.memory.implementation_status.components
  /\ ~InSync

\* C3: a failure while a backup is created or pruned does not make the
\* mutator fail: the mutation is applied, the primary file and the snapshot
\* are written, and the mutator returns successfully.
BackupFailureIsNotFatal ==
  (/\ last.op \in Mutators
   /\ last.hit \in BackupFailures \/ last.preHit \in BackupFailures
   /\ last.hit \notin WriteFaults
   /\ last.op = "clearMemory" => IsValidScope(last.args.scope)) =>
    /\ last.result.ok
    /\ MutationApplied
    /\ InSync

BackupFailureIsNotFatalSeen ==
  /\ last.op = "logConversationContext"
  /\ last.hit = "bkWrite"
  /\ last.result.ok
  /\ memFile # Pre.memFile

\* C4: after a logConversationContext call the conversations sequence is no
\* longer than the configured max_conversation_history.
ConversationsWithinMax ==
  last.op = "logConversationContext" =>
    Len(memory.conversations) <= config.max_conversation_history

\* C5: a logConversationContext call leaves the tail of (the previous
\* sequence followed by the new entry) of length min(its length, N), N being
\* the configured max.
ConversationsAreTheTail ==
  last.op = "logConversationContext" =>
    LET old == Pre.memory.conversations
        n == Len(old) + 1
        k == IF n < config.max_conversation_history
               THEN n ELSE config.max_conversation_history
    IN  /\ Len(memory.conversations) = k
        /\ k > 0 => memory.conversations[k].summary = last.args.summary
        /\ \A j \in 1..(k - 1) : memory.conversations[j] = old[n - k + j]

\* C6: when a backup has been created, at most 10 backup files remain, every
\* file that was removed is older than every file that was kept, and once 15
\* backups have been created exactly 10 remain.
BackupRetention ==
  (last.op \in Mutators /\ made > 0) =>
    /\ Cardinality(DOMAIN backups) <= 10
    /\ \A t \in DOMAIN Pre.backups \ DOMAIN backups : \A u \in DOMAIN backups : t < u
    /\ made >= 15 => Cardinality(DOMAIN backups) = 10

\* C7: clearMemory(scope, false) with scope decisions, solutions,
\* conversations or components leaves every other section as it was; only
\* metadata.last_updated and, for scope components, overall_progress change.
ClearLeavesOtherScopes ==
  (/\ last.op = "clearMemory"
   /\ ~last.args.createBackup
   /\ last.args.scope \in {"decisions", "solutions", "conversations", "components"}) =>
    LET s == last.args.scope
        old == Pre.memory
    IN  /\ s # "decisions" => memory.architecture.decisions = old.architecture.decisions
        /\ s # "solutions" => memory.working_solutions = old.working_solutions
        /\ s # "conversations" => memory.conversations = old.conversations
        /\ s # "components" =>
             memory.implementation_status = old.implementation_status
        /\ memory.current_priorities = old.current_priorities
        /\ memory.architecture.technologies = old.architecture.technologies
        /\ memory.project_info = old.project_info
        /\ memory.metadata.version = old.metadata.version
        /\ memory.metadata.created_at = old.metadata.created_at

ClearLeavesOtherScopesSeen ==
  /\ last.op = "clearMemory"
  /\ ~last.args.createBackup
  /\ last.args.scope = "decisions"
  /\ last.result.ok
  /\ Pre.memory.architecture.decisions # <<>>
  /\ memory.architecture.decisions = <<>>
  /\ memory.current_priorities # <<>>
  /\ memory.conversations # <<>>

\* C8: clearMemory("all") leaves components, technologies, decisions,
\* working solutions, priorities and conversations empty and overall_progress
\* "unknown", while project_info.createdAt and metadata.created_at keep the
\* values they had before the call.
ClearAllKeepsCreation ==
  (last.op = "clearMemory" /\ last.args.scope = "all") =>
    /\ memory.implementation_status.components = <<>>
    /\ memory.implementation_status.overall_progress = "unknown"
    /\ memory.architecture.technologies = <<>>
    /\ memory.architecture.decisions = <<>>
    /\ memory.working_solutions = JsonObject(<<>>)
    /\ memory.current_priorities = <<>>
    /\ memory.conversations = <<>>
    /\ memory.project_info.createdAt = Pre.memory.project_info.createdAt
    /\ memory.metadata.created_at = Pre.memory.metadata.created_at

ClearAllKeepsCreationSeen ==
  /\ last.op = "clearMemory"
  /\ last.args.scope = "all"
  /\ last.result.ok
  /\ Pre.memory.architecture.decisions # <<>>
  /\ Pre.memory.current_priorities # <<>>
  /\ memory.metadata.created_at < memory.metadata.last_updated
  /\ memory.current_priorities = <<>>

\* C9: clearMemory with a scope other than all, decisions, solutions,
\* conversations, components throws an error that names the given scope and
\* lists those five scopes; with one of the five it throws no such error.
UnknownScopeIsNamed ==
  last.op = "clearMemory" =>
    IF last.args.scope \in {"all", "decisions", "solutions", "conversations", "components"}
      THEN last.result.error # "Unknown scope"
      ELSE /\ ~last.result.ok
           /\ last.result.error = "Unknown scope"
           /\ last.result.detail.scope = last.args.scope
           /\ last.result.detail.use =
                <<"all", "decisions", "solutions", "conversations", "components">>

UnknownScopeIsNamedSeen ==
  /\ last.op = "clearMemory"
  /\ last.args.scope = "bogus"
  /\ ~last.result.ok
  /\ last.result.detail.scope = "bogus"

\* C10: when clearMemory(scope, true) has returned successfully (stated here
\* for the calls in which no file operation failed), the backups directory
\* holds a file whose content is the ProjectMemory as it was before the clear.
ClearBackupHoldsOldState ==
  (/\ last.op = "clearMemory"
   /\ last.args.createBackup
   /\ last.result.ok
   /\ last.preHit = "none"
   /\ last.hit = "none") =>
    \E t \in DOMAIN backups : backups[t] = ToJson(Pre.memory)

\* the failures of createBackup after which no backup file has been written
NoBackupWritten == {"ensureDir", "bkWrite", "bkWriteTrunc"}

\* C11: when clearMemory has returned, the clear has been performed, the
\* message names the scope, and the message reports a backup as created
\* exactly when one was asked for and its creation did not fail (a failed
\* creation is told by a note instead).
ClearMessageTellsBackup ==
  (last.op = "clearMemory" /\ last.result.ok) =>
    LET msg == last.result.value[1]
    IN  /\ MutationApplied
        /\ msg.scope = last.args.scope
        /\ (msg.backupMsg = " (backup created)") <=>
             (last.args.createBackup /\ last.preHit \notin NoBackupWritten)

\* a ProjectMemory with every section and field in place, no scalar left empty
Complete(m) ==
  /\ DOMAIN m = {"project_info", "implementation_status", "architecture",
                 "working_solutions", "current_priorities", "conversations", "metadata"}
  /\ DOMAIN m.project_info = {"name", "type", "description", "createdAt", "lastUpdated"}
  /\ DOMAIN m.implementation_status = {"overall_progress", "components"}
  /\ DOMAIN m.architecture = {"technologies", "decisions"}
  /\ DOMAIN m.metadata = {"version", "created_at", "last_updated"}
  /\ m.project_info.name # "" /\ m.project_info.type # ""
  /\ m.project_info.createdAt # 0 /\ m.project_info.lastUpdated # 0
  /\ m.implementation_status.overall_progress # ""
  /\ m.metadata.version # "" /\ m.metadata.created_at # 0

\* C12: initialize() fails only when the memory directory cannot be created;
\* otherwise it completes, whatever the memory file is (absent, unreadable,
\* unparseable, of the wrong shape), and leaves a complete ProjectMemory, the
\* fresh default when the file is absent or cannot be read or parsed.
InitializeNeverFailsOnFile ==
  last.op = "initialize" =>
    IF last.hit = "ensureDir"
      THEN /\ ~last.result.ok
           /\ last.result.error = "ensureDir"
           /\ phase = "constructed"
      ELSE /\ last.result.ok
           /\ phase = "ready"
           /\ Complete(memory)
           /\ memory.metadata.last_updated = clock
           /\ DOMAIN getCurrentContext(memory) =
                {"project_name", "project_type", "project_description", "project_root",
                 "overall_progress", "components", "priorities", "technologies",
                 "recent_decisions", "solutions", "recent_conversations", "last_updated"}
           /\ (memFile = <<>> \/ memFile = <<Corrupt>> \/ last.hit = "readJson") =>
                memory = DefaultMemory(config, clock)
           /\ memFile = <<StoredMemory>> /\ last.hit = "none" =>
                memory.project_info.name = StoredMemory.project_info.name

InitializeNeverFailsOnFileSeen ==
  /\ last.op = "initialize"
  /\ memFile = <<Corrupt>>
  /\ last.result.ok
  /\ phase = "ready"
  /\ memory = DefaultMemory(config, clock)

IsSequence(v) == DOMAIN v = 1..Len(v)

\* C13: once the store is initialized, current_priorities, the decisions, the
\* technologies and the conversations are sequences and working_solutions is
\* a mapping (a plain object, not an array), whatever the loaded file held.
ContainersWellShaped ==
  phase = "ready" =>
    /\ IsSequence(memory.current_priorities)
    /\ IsSequence(memory.architecture.decisions)
    /\ IsSequence(memory.architecture.technologies)
    /\ IsSequence(memory.conversations)
    /\ memory.working_solutions.kind = "object"

\* m without the properties whose value is undefined, which structural
\* equality disregards
Defined(m) ==
  [m EXCEPT
     !.implementation_status.components = [i \in 1..Len(@) |-> JsonComponent(@[i])],
     !.architecture.decisions = [i \in 1..Len(@) |-> JsonDecision(@[i])],
     !.working_solutions.entries = [i \in 1..Len(@) |-> JsonSolution(@[i])],
     !.conversations = [i \in 1..Len(@) |-> JsonConversation(@[i])]]

\* m and n are structurally equal except for metadata.last_updated
EqualButLastUpdated(m, n) ==
  [Defined(m) EXCEPT !.metadata.last_updated = 0]
    = [Defined(n) EXCEPT !.metadata.last_updated = 0]

\* C14: after a mutator has saved the memory, loading the saved file (in the
\* same millisecond or later) yields a value structurally equal to the
\* in-memory value, except for metadata.last_updated.
LoadOfSavedIsEqual ==
  (last.op \in Mutators /\ last.result.ok) =>
    \A d \in Delays : EqualButLastUpdated(loadMemory(config, memFile, clock + d), memory)

\* the last call, a mutator, has reached its saveMemory
SaveReached == last.op \in Mutators /\ (last.op = "clearMemory" => IsValidScope(last.args.scope))

\* C15: no mutator changes metadata.created_at; every save sets
\* metadata.last_updated to the time of the save; loading a file the store
\* has saved, and initializing from a file that holds a created_at, keep the
\* created_at of the file.
CreatedAtIsImmutable ==
  /\ last.op \in Mutators => memory.metadata.created_at = Pre.memory.metadata.created_at
  /\ SaveReached => memory.metadata.last_updated = clock
  /\ (SaveReached /\ memFile = <<ToJson(memory)>>) =>
       \A d \in Delays :
         loadMemory(config, memFile, clock + d).metadata.created_at
           = memory.metadata.created_at
  /\ (/\ last.op = "initialize"
      /\ phase = "ready"
      /\ last.hit = "none"
      /\ memFile \notin {<<>>, <<Corrupt>>}) =>
       memory.metadata.created_at = OrNow(memFile[1].metadata.created_at, clock)

CreatedAtIsImmutableSeen ==
  /\ last.op = "clearMemory"
  /\ last.args.scope = "conversations"
  /\ last.result.ok
  /\ memFile = <<ToJson(memory)>>
  /\ Pre.memory.metadata.created_at = 1
  /\ memory.metadata.created_at = 1
  /\ memory.metadata.last_updated > Pre.memory.metadata.last_updated
  /\ loadMemory(config, memFile, clock + 1).metadata.created_at = 1

\* C16: addArchitectureDecision leaves the old decisions, in their order,
\* followed by exactly one new record: the given texts, a newly generated id,
\* the time of the call, no tags (also when the same decision is already
\* there); every other call except clearMemory with scope decisions or all
\* leaves the decisions as they were.
DecisionsAppendOnly ==
  (last.op \in Mutators \cup {"getCurrentContext"}) =>
    LET old == Pre.memory.architecture.decisions
        new == memory.architecture.decisions
        a == last.args
    IN  CASE last.op = "addArchitectureDecision" ->
               /\ Len(new) = Len(old) + 1
               /\ SubSeq(new, 1, Len(old)) = old
               /\ new[Len(new)].decision = a.decision
               /\ new[Len(new)].rationale = a.rationale
               /\ new[Len(new)].impact = a.impact
               /\ new[Len(new)].alternatives = a.alternatives
               /\ new[Len(new)].tags = <<>>
               /\ new[Len(new)].date = clock
               /\ new[Len(new)].id.t = clock
          [] last.op = "clearMemory" /\ a.scope \in {"decisions", "all"} -> TRUE
          [] OTHER -> new = old

DecisionsAppendOnlySeen ==
  /\ last.op = "addArchitectureDecision"
  /\ Len(Pre.memory.architecture.decisions) = 2
  /\ Pre.memory.architecture.decisions[2].decision = last.args.decision
  /\ Len(memory.architecture.decisions) = 3
  /\ memory.architecture.decisions[1].decision = "Use React"
  /\ memory.architecture.decisions[3].decision = last.args.decision

\* the record an addWorkingSolution call with arguments a makes at time now
IsNewSolution(e, a, now) ==
  /\ e.key = e.value.id
  /\ e.value.id.t = now
  /\ e.value.problem = a.problem
  /\ e.value.solution = a.solution
  /\ e.value.command = a.command
  /\ e.value.tags = (IF a.tags.val = <<>> THEN <<>> ELSE a.tags.val[1])
  /\ e.value.date = now
  /\ e.value.successCount = 1

StoredIds ==
  [i \in 1..Len(memory.architecture.decisions) |->
     [id |-> memory.architecture.decisions[i].id,
      date |-> memory.architecture.decisions[i].date]]
  \o [i \in 1..Len(memory.conversations) |->
        [id |-> memory.conversations[i].id, date |-> memory.conversations[i].date]]
  \o [i \in 1..Len(memory.working_solutions.entries) |->
        [id |-> memory.working_solutions.entries[i].value.id,
         date |-> memory.working_solutions.entries[i].value.date]]

\* the record was created by this store instance, not loaded from the file
CreatedHere(rec) == rec.date >= StartClock

ComponentFullyReplaced ==
  last.op = "updateImplementationStatus" =>
    LET comps == getCurrentContext(memory).components
        a == last.args
        at == {i \in 1..Len(comps) : comps[i].key = a.component}
    IN  /\ Cardinality(at) = 1
        /\ \A i \in at :
             /\ DOMAIN comps[i].value = {"status", "progress", "details", "lastUpdated"}
             /\ comps[i].value.status = a.status
             /\ comps[i].value.progress = (IF a.progress.val = <<>> THEN 0
                                                                  ELSE a.progress.val[1])
             /\ comps[i].value.details.val = a.details.val
             /\ comps[i].value.lastUpdated = clock

ComponentFullyReplacedSeen ==
  /\ last.op = "updateImplementationStatus"
  /\ last.args = [component |-> "api", status |-> "complete", details |-> Undef,
                  progress |-> Some(100)]
  /\ \E i \in 1..Len(Pre.memory.implementation_status.components) :
       LET e == Pre.memory.implementation_status.components[i]
       IN  e.key = "api" /\ e.value.details = Some("wip") /\ e.value.progress = 0
  /\ \E i \in 1..Len(getCurrentContext(memory).components) :
       LET e == getCurrentContext(memory).components[i]
       IN  /\ e.key = "api"
           /\ e.value.status = "complete"
           /\ e.value.progress = 100
           /\ e.value.details.val = <<>>

\* the last min(Len(s), n) elements of s, in their order
LastOf(s, n) ==
  LET k == IF Len(s) < n THEN Len(s) ELSE n
  IN  [i \in 1..k |-> s[Len(s) - k + i]]

\* C20: in every state of an initialized store the recent_decisions of
\* getCurrentContext() are the last 5 decisions in their order (all of them
\* when there are fewer), never more than 5, and its recent_conversations
\* are the same for the conversations; a getCurrentContext() call returns
\* just that.
RecentAreTheTail ==
  phase = "ready" =>
    LET c == getCurrentContext(memory)
    IN  /\ Len(c.recent_decisions) <= 5
        /\ c.recent_decisions = LastOf(memory.architecture.decisions, 5)
        /\ Len(c.recent_conversations) <= 5
        /\ c.recent_conversations = LastOf(memory.conversations, 5)
        /\ last.op = "getCurrentContext" => last.result.value[1] = c

RecentAreTheTailSeen ==
  /\ last.op = "getCurrentContext"
  /\ Len(memory.architecture.decisions) = 6
  /\ Len(last.result.value[1].recent_decisions) = 5
  /\ last.result.value[1].recent_decisions[1] = memory.architecture.decisions[2]
  /\ last.result.value[1].recent_decisions[5] = memory.architecture.decisions[6]

---------------------------------------------------------------------------
(* Search.  A string value is spelled out by Chars as its sequence of       *)
(* characters, so that toLowerCase, includes and split act on characters.   *)
(* A relevance is the exact rational [num, den] in lowest terms of the      *)
(* number the code computes in floating point; [0, 0] is NaN, the result of *)
(* 0 / 0.  The texts and queries used here have no empty word, so no NaN    *)
(* reaches the comparison function of the sort.                             *)

MaxLimit == 2          \* explicit search limits range over 1..MaxLimit
MaxSearchCalls == 3    \* calls after initialize() in one behaviour of SpecSearch

DefaultLimit == 10
ExactMatchBonus == 10

\* the value undefined where a string is expected; String(undefined) spells it
JsUndefined == "undefined"

\* the characters of the string values that occur
Chars(s) ==
  CASE s = "Use PostgreSQL" ->
         <<"U", "s", "e", " ", "P", "o", "s", "t", "g", "r", "e", "S", "Q", "L">>
    [] s = "ACID compliance" ->
         <<"A", "C", "I", "D", " ", "c", "o", "m", "p", "l", "i", "a", "n", "c", "e">>
    [] s = "Use React" ->
         <<"U", "s", "e", " ", "R", "e", "a", "c", "t">>
    [] s = "team knows it" ->
         <<"t", "e", "a", "m", " ", "k", "n", "o", "w", "s", " ", "i", "t">>
    [] s = "kickoff" ->
         <<"k", "i", "c", "k", "o", "f", "f">>
    [] s = "standup" ->
         <<"s", "t", "a", "n", "d", "u", "p">>
    [] s = "build fails" ->
         <<"b", "u", "i", "l", "d", " ", "f", "a", "i", "l", "s">>
    [] s = "clear cache" ->
         <<"c", "l", "e", "a", "r", " ", "c", "a", "c", "h", "e">>
    [] s = "Use React for frontend" ->
         <<"U", "s", "e", " ", "R", "e", "a", "c", "t", " ", "f", "o", "r", " ", "f", "r", "o", "n", "t", "e", "n", "d">>
    [] s = "Component-based architecture" ->
         <<"C", "o", "m", "p", "o", "n", "e", "n", "t", "-", "b", "a", "s", "e", "d", " ", "a", "r", "c", "h", "i", "t", "e", "c", "t", "u", "r", "e">>
    [] s = "How to handle React state" ->
         <<"H", "o", "w", " ", "t", "o", " ", "h", "a", "n", "d", "l", "e", " ", "R", "e", "a", "c", "t", " ", "s", "t", "a", "t", "e">>
    [] s = "Use useState hook" ->
         <<"U", "s", "e", " ", "u", "s", "e", "S", "t", "a", "t", "e", " ", "h", "o", "o", "k">>
    [] s = "react" ->
         <<"r", "e", "a", "c", "t">>
    [] s = "REACT" ->
         <<"R", "E", "A", "C", "T">>
    [] s = "React" ->
         <<"R", "e", "a", "c", "t">>
    [] s = "postgres" ->
         <<"p", "o", "s", "t", "g", "r", "e", "s">>
    [] s = "use" ->
         <<"u", "s", "e">>
    [] s = "react hooks" ->
         <<"r", "e", "a", "c", "t", " ", "h", "o", "o", "k", "s">>
    [] s = "react team" ->
         <<"r", "e", "a", "c", "t", " ", "t", "e", "a", "m">>
    [] s = "undefined" ->
         <<"u", "n", "d", "e", "f", "i", "n", "e", "d">>
    [] s = "/tmp/proj" ->
         <<"/", "t", "m", "p", "/", "p", "r", "o", "j">>
    [] s = "proj" ->
         <<"p", "r", "o", "j">>
    [] s = "" ->
         <<>>
    [] s = "some content" ->
         <<"s", "o", "m", "e", " ", "c", "o", "n", "t", "e", "n", "t">>
    [] s = " some content" ->
         <<" ", "s", "o", "m", "e", " ", "c", "o", "n", "t", "e", "n", "t">>
    [] s = "some content " ->
         <<"s", "o", "m", "e", " ", "c", "o", "n", "t", "e", "n", "t", " ">>
    [] s = "some  content" ->
         <<"s", "o", "m", "e", " ", " ", "c", "o", "n", "t", "e", "n", "t">>
    [] s = "query" ->
         <<"q", "u", "e", "r", "y">>
    [] s = " query" ->
         <<" ", "q", "u", "e", "r", "y">>
    [] s = "query " ->
         <<"q", "u", "e", "r", "y", " ">>
    [] s = "q  y" ->
         <<"q", " ", " ", "y">>
    [] s = "test" ->
         <<"t", "e", "s", "t">>
    [] s = "testing framework" ->
         <<"t", "e", "s", "t", "i", "n", "g", " ", "f", "r", "a", "m", "e", "w", "o", "r", "k">>
    [] s = "exact match" ->
         <<"e", "x", "a", "c", "t", " ", "m", "a", "t", "c", "h">>

UpperCase == <<"A", "B", "C", "D", "E", "F", "G", "H", "I", "J", "K", "L", "M", "N", "O", "P", "Q", "R", "S", "T", "U", "V", "W", "X", "Y", "Z">>
LowerCase == <<"a", "b", "c", "d", "e", "f", "g", "h", "i", "j", "k", "l", "m", "n", "o", "p", "q", "r", "s", "t", "u", "v", "w", "x", "y", "z">>

\* a toLowerCase that leaves every character as it is
toLowerCaseKeeping(s) == s

\* the lower-case form of a character
LowerOf ==
  [c \in {UpperCase[k] : k \in 1..Len(UpperCase)} |->
     LowerCase[CHOOSE k \in 1..Len(UpperCase) : UpperCase[k] = c]]

\* String.prototype.toLowerCase
toLowerCase(s) ==
  [i \in 1..Len(s) |-> IF s[i] \in DOMAIN LowerOf THEN LowerOf[s[i]] ELSE s[i]]

\* String.prototype.includes
includes(text, part) ==
  \E i \in 0..(Len(text) - Len(part)) : SubSeq(text, i + 1, i + Len(part)) = part

\* String.prototype.split(' '): the pieces between single spaces, empty ones kept
RECURSIVE split(_)
split(s) ==
  IF \E i \in 1..Len(s) : s[i] = " "
    THEN LET i == CHOOSE i \in 1..Len(s) : s[i] = " " /\ \A j \in 1..(i - 1) : s[j] # " "
         IN  <<SubSeq(s, 1, i - 1)>> \o split(SubSeq(s, i + 1, Len(s)))
    ELSE <<s>>

\* a + ' ' + b
Joined(a, b) == Chars(a) \o <<" ">> \o Chars(b)

RECURSIVE Gcd(_, _)
Gcd(a, b) == IF b = 0 THEN a ELSE Gcd(b, a % b)

NaN == [num |-> 0, den |-> 0]

\* n / d
Ratio(n, d) == IF d = 0 THEN NaN ELSE [num |-> n \div Gcd(n, d), den |-> d \div Gcd(n, d)]

\* x + y
Plus(x, y) ==
  IF x.den = 0 \/ y.den = 0 THEN NaN
  ELSE Ratio(x.num * y.den + y.num * x.den, x.den * y.den)

\* x < y; false when either is NaN
Less(x, y) == x.den # 0 /\ y.den # 0 /\ x.num * y.den < y.num * x.den

\* the two loops of calculateRelevance from the pair (i, j) on, row by row
RECURSIVE WordMatchScore(_, _, _, _, _)
WordMatchScore(queryWords, textWords, i, j, score) ==
  IF i > Len(queryWords) THEN score
  ELSE IF j > Len(textWords) THEN WordMatchScore(queryWords, textWords, i + 1, 1, score)
  ELSE WordMatchScore(queryWords, textWords, i, j + 1,
         IF includes(textWords[j], queryWords[i])
           THEN Plus(score, Ratio(Len(queryWords[i]), Len(textWords[j])))
           ELSE score)

\* a calculateRelevance without the exact match bonus
calculateRelevanceOfWords(query, text) ==
  WordMatchScore(split(query), split(toLowerCase(text)), 1, 1, Ratio(0, 1))

calculateRelevance(query, text) ==
  LET textLower == toLowerCase(text)
      score == IF includes(textLower, query) THEN Ratio(ExactMatchBonus, 1) ELSE Ratio(0, 1)
  IN  WordMatchScore(split(query), split(textLower), 1, 1, score)

\* field?.toLowerCase().includes(queryLower)
FieldIncludes(field, queryLower) ==
  field # JsUndefined /\ includes(toLowerCase(Chars(field)), queryLower)

SearchResult(type, relevance, data) == [type |-> type, relevance |-> relevance, data |-> data]

\* Object.values of working_solutions
SolutionValues(ws) == ws.items \o [i \in 1..Len(ws.entries) |-> ws.entries[i].value]

RECURSIVE Filter(_, _)
Filter(s, keep) ==
  IF s = <<>> THEN <<>>
  ELSE (IF keep[1] THEN <<s[1]>> ELSE <<>>) \o Filter(SubSeq(s, 2, Len(s)), SubSeq(keep, 2, Len(keep)))

\* the three scans of searchMemory: what results holds before the sort
Candidates(m, queryLower) ==
  LET ds == m.architecture.decisions
      ss == SolutionValues(m.working_solutions)
      cs == m.conversations
  IN  Filter([i \in 1..Len(ds) |->
                SearchResult("decision",
                  calculateRelevance(queryLower, Joined(ds[i].decision, ds[i].rationale)),
                  ds[i])],
             [i \in 1..Len(ds) |-> FieldIncludes(ds[i].decision, queryLower)
                                     \/ FieldIncludes(ds[i].rationale, queryLower)])
      \o Filter([i \in 1..Len(ss) |->
                   SearchResult("solution",
                     calculateRelevance(queryLower, Joined(ss[i].problem, ss[i].solution)),
                     ss[i])],
                [i \in 1..Len(ss) |-> FieldIncludes(ss[i].problem, queryLower)
                                        \/ FieldIncludes(ss[i].solution, queryLower)])
      \o Filter([i \in 1..Len(cs) |->
                   SearchResult("conversation",
                     calculateRelevance(queryLower, Chars(cs[i].summary)), cs[i])],
                [i \in 1..Len(cs) |-> FieldIncludes(cs[i].summary, queryLower)])

\* a sort that leaves the results in scan order
sortKeepingOrder(results) == results

\* Array.prototype.sort((a, b) => b.relevance - a.relevance), a stable sort
RECURSIVE sortByRelevance(_)
sortByRelevance(results) ==
  IF results = <<>> THEN <<>>
  ELSE LET n == Len(results)
           x == results[n]
           sorted == sortByRelevance(SubSeq(results, 1, n - 1))
           k == Cardinality({i \in 1..(n - 1) : ~Less(sorted[i].relevance, x.relevance)})
       IN  SubSeq(sorted, 1, k) \o <<x>> \o SubSeq(sorted, k + 1, n - 1)

\* Array.prototype.slice(0, end)
SliceTo(s, end) ==
  LET stop == IF end < 0 THEN Len(s) + end ELSE end
  IN  SubSeq(s, 1, IF stop > Len(s) THEN Len(s) ELSE stop)

searchMemory(m, query, limit) ==
  SliceTo(sortByRelevance(Candidates(m, toLowerCase(Chars(query)))), limit)

---------------------------------------------------------------------------
(* A fourth specification: records are added, each call a millisecond after *)
(* the previous one and no file operation failing, and the store is         *)
(* searched in between.                                                     *)

SearchDecisionInputs ==
  DecisionInputs \cup
  {[decision |-> "Use React for frontend", rationale |-> "Component-based architecture",
    impact |-> Undef, alternatives |-> Undef]}

SearchSolutionInputs ==
  {[problem |-> "How to handle React state", solution |-> "Use useState hook",
    command |-> Undef, tags |-> Undef]}

QueryInputs == {"react", "REACT", "React", "postgres", "use", "react hooks", "react team"}

LimitInputs == (1..MaxLimit) \cup {DefaultLimit}

\* a pure read: nothing but the record of the call changes
SearchMemory(query, limit) ==
  /\ phase = "ready"
  /\ calls' = calls + 1
  /\ last' = [NoCall EXCEPT !.op = "searchMemory",
                            !.args = [query |-> query, limit |-> limit],
                            !.pre = <<Snapshot>>,
                            !.result = Returned(<<searchMemory(memory, query, limit)>>)]
  /\ UNCHANGED <<phase, config, memory, memFile, ctxFile, backups, clock, made, faulty, inflight>>

MoreSearch == calls < MaxSearchCalls

NextSearch ==
  \/ Initialize("none")
  \/ MoreSearch /\ \E a \in SearchDecisionInputs, r \in RandomValues :
                     AddArchitectureDecision(a, r, 1, "none")
  \/ MoreSearch /\ \E a \in SearchSolutionInputs, r \in RandomValues :
                     AddWorkingSolution(a, r, 1, "none")
  \/ MoreSearch /\ \E a \in ConversationInputs, r \in RandomValues :
                     LogConversationContext(a, r, 1, "none")
  \/ MoreSearch /\ \E q \in QueryInputs, l \in LimitInputs : SearchMemory(q, l)

SpecSearch == Init /\ [][NextSearch]_vars

---------------------------------------------------------------------------
(* Properties of searchMemory *)

\* the last call was a search; its query, lowered, and what it returned
Searched == last.op = "searchMemory"
LastQuery == toLowerCase(Chars(last.args.query))
Found == last.result.value[1]

\* every record of the store with its type, in scan order
Records(m) ==
  [i \in 1..Len(m.architecture.decisions) |->
     [type |-> "decision", data |-> m.architecture.decisions[i]]]
  \o [i \in 1..Len(SolutionValues(m.working_solutions)) |->
        [type |-> "solution", data |-> SolutionValues(m.working_solutions)[i]]]
  \o [i \in 1..Len(m.conversations) |->
        [type |-> "conversation", data |-> m.conversations[i]]]

\* the lowercased text of a record: decision+rationale, problem+solution or summary
RecordText(r) ==
  toLowerCase(CASE r.type = "decision" -> Joined(r.data.decision, r.data.rationale)
                [] r.type = "solution" -> Joined(r.data.problem, r.data.solution)
                [] r.type = "conversation" -> Chars(r.data.summary))

\* the whitespace-delimited tokens of s, each as the span <<first, last>> it occupies
WordSpans(s) ==
  {sp \in (1..Len(s)) \X (1..Len(s)) :
     /\ sp[1] <= sp[2]
     /\ \A k \in sp[1]..sp[2] : s[k] # " "
     /\ sp[1] = 1 \/ s[sp[1] - 1] = " "
     /\ sp[2] = Len(s) \/ s[sp[2] + 1] = " "}

Word(s, sp) == SubSeq(s, sp[1], sp[2])

\* the (query-token, text-token) pairs in which the text-token contains the query-token
MatchingPairs(query, text) ==
  {p \in WordSpans(query) \X WordSpans(text) :
     includes(Word(text, p[2]), Word(query, p[1]))}

\* the two admission paths: the whole query in the text, or a token of the query
\* in a token of the text
AdmittedByText(query, text) ==
  includes(text, query) \/ MatchingPairs(query, text) # {}

\* C21: a search that is not cut short by its limit returns a record if and only
\* if the lowercased text of the record contains the lowercased query, or some
\* token of the query is a substring of some token of that text
AdmittedByEitherPath ==
  Searched /\ last.args.limit >= Len(Records(memory)) =>
    \A i \in 1..Len(Records(memory)) :
      (\E k \in 1..Len(Found) : Found[k].data = Records(memory)[i].data)
        <=> AdmittedByText(LastQuery, RecordText(Records(memory)[i]))

\* the number of candidates that come before candidate j in the result: those of
\* a higher relevance and those of the same relevance scanned earlier
Rank(cands, j) ==
  Cardinality({i \in 1..Len(cands) :
                 \/ Less(cands[j].relevance, cands[i].relevance)
                 \/ cands[i].relevance = cands[j].relevance /\ i < j})

Min(a, b) == IF a < b THEN a ELSE b

\* C22: a search returns at most limit results: the candidates of the highest
\* relevance, in descending order of relevance, those of equal relevance in scan
\* order (decisions, then solutions, then conversations, each in stored order)
ResultsRankedAndLimited ==
  Searched =>
    LET cands == Candidates(memory, LastQuery)
    IN  /\ Len(Found) = Min(last.args.limit, Len(cands))
        /\ \A j \in 1..Len(cands) :
             Rank(cands, j) < Len(Found) => Found[Rank(cands, j) + 1] = cands[j]
        /\ \A k \in 1..(Len(Found) - 1) :
             ~Less(Found[k].relevance, Found[k + 1].relevance)

\* a search with a limit of 1 returned the second of several candidates
ResultsRankedAndLimitedSeen ==
  /\ Searched
  /\ last.args.limit = 1
  /\ Len(Candidates(memory, LastQuery)) >= 2
  /\ Found = <<Candidates(memory, LastQuery)[2]>>

\* the queries that differ from the last one in letter case only
CaseVariants == {q \in QueryInputs : toLowerCase(Chars(q)) = LastQuery}

\* C23: queries that differ only in letter case return the same results with the
\* same relevances, and a decision added as "Use PostgreSQL" is one more result,
\* of type decision, of the query "postgres", the only one when there was none
SearchIgnoresCase ==
  /\ Searched =>
       \A q \in CaseVariants : searchMemory(memory, q, last.args.limit) = Found
  /\ last.op = "addArchitectureDecision" /\ last.result.ok
       /\ last.args.decision = "Use PostgreSQL" =>
       LET before == searchMemory(Pre.memory, "postgres", DefaultLimit)
           after == searchMemory(memory, "postgres", DefaultLimit)
       IN  /\ Len(after) = Len(before) + 1
           /\ \E k \in 1..Len(after) :
                /\ after[k].type = "decision"
                /\ after[k].data = LastEntry(memory.architecture.decisions)
           /\ before = <<>> => Len(after) = 1 /\ after[1].type = "decision"

\* the query REACT found a record stored as "Use React ..."
SearchIgnoresCaseSeen ==
  /\ Searched
  /\ last.args.query = "REACT"
  /\ CaseVariants = {"react", "REACT", "React"}
  /\ Found # <<>>
  /\ searchMemory(memory, "postgres", DefaultLimit) # <<>>

\* the sum of len(query-token) / len(text-token) over a set of token pairs
RECURSIVE RatioSum(_, _, _)
RatioSum(pairs, query, text) ==
  IF pairs = {} THEN Ratio(0, 1)
  ELSE LET p == CHOOSE p \in pairs : TRUE
       IN  Plus(Ratio(p[1][2] - p[1][1] + 1, p[2][2] - p[2][1] + 1),
                RatioSum(pairs \ {p}, query, text))

\* C24: the relevance of a result is 10 when the lowercased text contains the
\* lowercased query (else 0) plus the sum, over the token pairs in which the
\* text-token contains the query-token, of len(query-token) / len(text-token)
RelevanceIsBonusPlusWordRatios ==
  Searched =>
    \A k \in 1..Len(Found) :
      LET text == RecordText([type |-> Found[k].type, data |-> Found[k].data])
      IN  Found[k].relevance =
            Plus(IF includes(text, LastQuery) THEN Ratio(10, 1) ELSE Ratio(0, 1),
                 RatioSum(MatchingPairs(LastQuery, text), LastQuery, text))

\* a result whose relevance is above 1 and has a fractional part from a token pair
RelevanceIsBonusPlusWordRatiosSeen ==
  /\ Searched
  /\ \E k \in 1..Len(Found) :
       /\ Less(Ratio(1, 1), Found[k].relevance)
       /\ Found[k].relevance.den > 1

---------------------------------------------------------------------------
(* The tool gateway (ProjectMemoryServer, server.ts).  The arguments of a   *)
(* tool call are <<>> when the request carries none (args is undefined) and *)
(* <<object>> otherwise; a property of the object is Missing or Some(x).    *)
(* A text is a record that names the template and holds the values put into *)
(* it.  A handler ends in [w, store, out]: the world it leaves, the store   *)
(* methods it has called, and what it returns or throws.                    *)

MaxToolCalls == 2      \* tool calls in one behaviour of SpecGateway

\* the inputSchema of the tools: required arguments, enum and ranges
ToolNames ==
  {"get_project_context", "update_implementation_status", "add_architecture_decision",
   "add_working_solution", "update_priorities", "search_memory",
   "log_conversation_context", "clear_memory"}

RequiredArguments(name) ==
  CASE name = "update_implementation_status" -> <<"component", "status">>
    [] name = "add_architecture_decision" -> <<"decision", "rationale">>
    [] name = "add_working_solution" -> <<"problem", "solution">>
    [] name = "update_priorities" -> <<"priorities">>
    [] name = "search_memory" -> <<"query">>
    [] name = "log_conversation_context" -> <<"summary">>
    [] name = "clear_memory" -> <<"confirm">>
    [] OTHER -> <<>>

StatusEnum == {"not_started", "in_progress", "complete", "blocked", "deprecated"}
MinProgress == 0
MaxProgress == 100
MinLimit == 1
MaxSearchLimit == 50

\* a CallToolResult holding one text, and the protocol error of the request handler
TextResult(text) == [isError |-> FALSE, content |-> text]
McpError(message) ==
  [isError |-> TRUE, content |-> [kind |-> "Tool execution failed", message |-> message]]

\* error.message of what a call throws
ErrorMessage(thrown) == [error |-> thrown.error, detail |-> thrown.detail]

\* `Error executing ${name}: ${errorMessage}`
ErrorExecuting(name, message) ==
  [kind |-> "Error executing", name |-> name, message |-> message]

\* destructuring args when it is undefined, reading a property of undefined
TypeError(of) == Thrown("TypeError", [of |-> of])

\* an error that does not say which tool was asked for
UnknownToolUnnamed(name) == Thrown("Unknown tool", [name |-> ""])

\* new Error(`Unknown tool: ${name}`)
UnknownTool(name) == Thrown("Unknown tool", [name |-> name])

HandlerResult(w, store, out) == [w |-> w, store |-> store, out |-> out]

\* what a handler hands on when the store method it awaited is over
AfterStore(w, method, text) ==
  HandlerResult(w, <<method>>, IF w.result.ok THEN Returned(<<text>>) ELSE w.result)

\* a destructured property: undefined when absent
Str(o) == IF o.val = <<>> THEN JsUndefined ELSE o.val[1]
Passed(o) == IF o.val = <<>> THEN Undef ELSE o

\* JSON.stringify of the data of a search result
JsonRecord(type, data) ==
  CASE type = "decision" -> JsonDecision(data)
    [] type = "solution" -> [data EXCEPT !.command = JsonOpt(@)]
    [] type = "conversation" -> JsonConversation(data)

handleGetProjectContext(w) ==
  LET context == ContextToJson(getCurrentContext(w.memory))
      formattedContext ==
        [project_overview |->
           [name |-> context.project_name, type |-> context.project_type,
            description |-> context.project_description,
            progress |-> context.overall_progress],
         current_priorities |-> context.priorities,
         recent_activity |-> [decisions |-> context.recent_decisions,
                              conversations |-> context.recent_conversations],
         implementation_status |-> [components |-> context.components,
                                    overall_progress |-> context.overall_progress],
         architecture |-> [technologies |-> context.technologies,
                           recent_decisions |-> context.recent_decisions],
         working_solutions |-> context.solutions,
         last_updated |-> context.last_updated]
  IN  HandlerResult(w, <<"getCurrentContext">>,
                    Returned(<<[kind |-> "JSON", value |-> formattedContext]>>))

handleUpdateImplementationStatus(w, cfg, args, rnd, fault) ==
  IF args = <<>> THEN HandlerResult(w, <<>>, TypeError("args"))
  ELSE LET a == [component |-> Str(args[1].component), status |-> Str(args[1].status),
                 details |-> Passed(args[1].details), progress |-> Passed(args[1].progress)]
       IN  AfterStore(updateImplementationStatus(w, cfg, a, fault),
                      "updateImplementationStatus",
                      [kind |-> "Successfully updated status", component |-> a.component,
                       status |-> a.status, progress |-> a.progress.val])

handleAddArchitectureDecision(w, cfg, args, rnd, fault) ==
  IF args = <<>> THEN HandlerResult(w, <<>>, TypeError("args"))
  ELSE LET a == [decision |-> Str(args[1].decision), rationale |-> Str(args[1].rationale),
                 impact |-> Passed(args[1].impact),
                 alternatives |-> Passed(args[1].alternatives)]
       IN  AfterStore(addArchitectureDecision(w, cfg, a, rnd, fault),
                      "addArchitectureDecision",
                      [kind |-> "Successfully recorded architecture decision",
                       decision |-> a.decision])

handleAddWorkingSolution(w, cfg, args, rnd, fault) ==
  IF args = <<>> THEN HandlerResult(w, <<>>, TypeError("args"))
  ELSE LET a == [problem |-> Str(args[1].problem), solution |-> Str(args[1].solution),
                 command |-> Passed(args[1].command), tags |-> Passed(args[1].tags)]
       IN  AfterStore(addWorkingSolution(w, cfg, a, rnd, fault),
                      "addWorkingSolution",
                      [kind |-> "Successfully recorded working solution",
                       problem |-> a.problem])

\* priorities is an array whenever the arguments are an object
handleUpdatePriorities(w, cfg, args, rnd, fault) ==
  IF args = <<>> THEN HandlerResult(w, <<>>, TypeError("args"))
  ELSE LET priorities == args[1].priorities.val[1]
       IN  AfterStore(updatePriorities(w, cfg, priorities, fault),
                      "updatePriorities",
                      [kind |-> "Successfully updated priorities",
                       items |-> Len(priorities)])

handleSearchMemory(w, cfg, args, rnd, fault) ==
  IF args = <<>> THEN HandlerResult(w, <<>>, TypeError("args"))
  ELSE IF args[1].query.val = <<>>
    THEN HandlerResult(w, <<"searchMemory">>, TypeError("query"))
  ELSE LET query == args[1].query.val[1]
           results == searchMemory(w.memory, query, Coalesce(args[1].limit, DefaultLimit))
       IN  HandlerResult(w, <<"searchMemory">>,
             Returned(<<[kind |-> "JSON",
                         value |-> [query |-> query, results_count |-> Len(results),
                                    results |-> [i \in 1..Len(results) |->
                                       [type |-> results[i].type,
                                        relevance |-> results[i].relevance,
                                        content |-> JsonRecord(results[i].type,
                                                               results[i].data)]]]]>>))

handleLogConversationContext(w, cfg, args, rnd, fault) ==
  IF args = <<>> THEN HandlerResult(w, <<>>, TypeError("args"))
  ELSE LET a == [summary |-> Str(args[1].summary),
                 decisions_made |-> Passed(args[1].decisions_made),
                 solutions_found |-> Passed(args[1].solutions_found)]
       IN  AfterStore(logConversationContext(w, cfg, a, rnd, fault),
                      "logConversationContext",
                      [kind |-> "Successfully logged conversation context",
                       summary |-> a.summary])

\* the text that asks for the confirmation
RequiresConfirmation(scope, create_backup) ==
  [kind |-> "Memory clear operation requires confirmation",
   scope |-> scope, create_backup |-> create_backup]

\* a handleClearMemory that does not look at confirm
handleClearMemoryUngated(w, cfg, args, rnd, fault) ==
  IF args = <<>> THEN HandlerResult(w, <<>>, TypeError("args"))
  ELSE LET a == [scope |-> Coalesce(args[1].scope, "all"),
                 createBackup |-> Coalesce(args[1].create_backup, TRUE)]
           w1 == clearMemory(w, cfg, a, 0, "none", fault)
       IN  HandlerResult(w1, <<"clearMemory">>, w1.result)

handleClearMemory(w, cfg, args, rnd, fault) ==
  IF args = <<>> THEN HandlerResult(w, <<>>, TypeError("args"))
  ELSE LET a == [scope |-> Coalesce(args[1].scope, "all"),
                 createBackup |-> Coalesce(args[1].create_backup, TRUE)]
           confirm == Coalesce(args[1].confirm, FALSE)
           w1 == clearMemory(w, cfg, a, 0, "none", fault)
       IN  IF ~confirm
             THEN HandlerResult(w, <<>>,
                                Returned(<<RequiresConfirmation(a.scope, a.createBackup)>>))
             ELSE HandlerResult(w1, <<"clearMemory">>, w1.result)

\* the switch of handleToolCall
Dispatch(w, cfg, name, args, rnd, fault) ==
  CASE name = "get_project_context" -> handleGetProjectContext(w)
    [] name = "update_implementation_status" ->
         handleUpdateImplementationStatus(w, cfg, args, rnd, fault)
    [] name = "add_architecture_decision" ->
         handleAddArchitectureDecision(w, cfg, args, rnd, fault)
    [] name = "add_working_solution" -> handleAddWorkingSolution(w, cfg, args, rnd, fault)
    [] name = "update_priorities" -> handleUpdatePriorities(w, cfg, args, rnd, fault)
    [] name = "search_memory" -> handleSearchMemory(w, cfg, args, rnd, fault)
    [] name = "log_conversation_context" ->
         handleLogConversationContext(w, cfg, args, rnd, fault)
    [] name = "clear_memory" -> handleClearMemory(w, cfg, args, rnd, fault)
    [] OTHER -> HandlerResult(w, <<>>, UnknownTool(name))

\* the try of the request handler around a handleToolCall without its catch:
\* what is thrown becomes a protocol error
RespondRethrowing(name, h) ==
  [h EXCEPT !.out = IF @.ok THEN TextResult(@.value[1]) ELSE McpError(ErrorMessage(@))]

\* the try and catch of handleToolCall: what the handler returns or throws
\* becomes the response
Respond(name, h) ==
  [h EXCEPT !.out = IF @.ok THEN TextResult(@.value[1])
                    ELSE TextResult(ErrorExecuting(name, ErrorMessage(@)))]

handleToolCall(w, cfg, name, args, rnd, fault) ==
  Respond(name, Dispatch(w, cfg, name, args, rnd, fault))

(* Tool calls *)

StatusArguments ==
  {[component |-> Some("api"), status |-> st, details |-> Missing, progress |-> pr] :
     st \in {Some("complete"), Some("invalid_status"), Missing},
     pr \in {Missing, Some(MaxProgress)}}
  \cup {[component |-> Some("api"), status |-> Some("in_progress"), details |-> Some("wip"),
         progress |-> Some(pr)] : pr \in {MinProgress - 1, MaxProgress + 1}}

DecisionArguments ==
  {[decision |-> Some("Use PostgreSQL"), rationale |-> r, impact |-> Missing,
    alternatives |-> Missing] : r \in {Some("ACID compliance"), Missing}}

SolutionArguments ==
  {[problem |-> Some("build fails"), solution |-> s, command |-> Some("npm ci"),
    tags |-> Missing] : s \in {Some("clear cache"), Missing}}

PriorityArguments == {[priorities |-> Some(p)] : p \in PriorityInputs}

SearchArguments ==
  {[query |-> Some("use"), limit |-> l] :
     l \in {Missing, Some(MinLimit), Some(MinLimit - 1), Some(MinLimit - 2),
            Some(MaxSearchLimit + 1)}}
  \cup {[query |-> Missing, limit |-> Missing]}

ConversationArguments ==
  {[summary |-> s, decisions_made |-> Missing, solutions_found |-> Some(<<"fix">>)] :
     s \in {Some("standup"), Missing}}

ClearArguments ==
  {[scope |-> s, create_backup |-> b, confirm |-> c] :
     s \in {Missing, Some("decisions"), Some("bogus")},
     b \in {Missing, Some(FALSE)},
     c \in {Missing, Some(FALSE), Some(TRUE)}}

UnknownNames == {"unknown_tool"}

\* the arguments {}
EmptyObject == <<>>

GatewayFaults == {"none", "memWrite"}

\* the request is over: the world the handler leaves becomes the state
Answered(name, args, h) ==
  /\ memory' = h.w.memory
  /\ memFile' = h.w.memFile
  /\ ctxFile' = h.w.ctxFile
  /\ backups' = h.w.backups
  /\ clock' = h.w.clock
  /\ made' = h.w.made
  /\ faulty' = IF h.w.hit = "none" /\ h.w.preHit = "none" THEN faulty ELSE faulty + 1
  /\ last' = [op |-> name, args |-> args, pre |-> <<Snapshot>>,
              preHit |-> h.w.preHit, hit |-> h.w.hit, result |-> h.w.result,
              store |-> h.store, reply |-> h.out]
  /\ calls' = calls + 1
  /\ UNCHANGED <<phase, config, inflight>>

\* one request: handleToolCall from its first line to the response
ToolCall(name, args, rnd, fault) ==
  /\ phase = "ready"
  /\ Answered(name, args, handleToolCall(Begin(1), config, name, args, rnd, fault))

MoreTools == calls < MaxToolCalls

NextGateway ==
  \/ \E f \in InitFaults : Initialize(f)
  \/ MoreTools /\ \E args \in {<<>>, <<EmptyObject>>} :
                    ToolCall("get_project_context", args, 0, "none")
  \/ MoreTools /\ \E a \in StatusArguments, f \in Allowed(GatewayFaults, "none") :
                    ToolCall("update_implementation_status", <<a>>, 0, f)
  \/ MoreTools /\ \E a \in DecisionArguments, r \in RandomValues,
                     f \in Allowed(GatewayFaults, "none") :
                    ToolCall("add_architecture_decision", <<a>>, r, f)
  \/ MoreTools /\ \E a \in SolutionArguments, r \in RandomValues,
                     f \in Allowed(GatewayFaults, "none") :
                    ToolCall("add_working_solution", <<a>>, r, f)
  \/ MoreTools /\ \E args \in {<<>>} \cup {<<a>> : a \in PriorityArguments},
                     f \in Allowed(GatewayFaults, "none") :
                    ToolCall("update_priorities", args, 0, f)
  \/ MoreTools /\ \E a \in SearchArguments : ToolCall("search_memory", <<a>>, 0, "none")
  \/ MoreTools /\ \E a \in ConversationArguments, r \in RandomValues,
                     f \in Allowed(GatewayFaults, "none") :
                    ToolCall("log_conversation_context", <<a>>, r, f)
  \/ MoreTools /\ \E args \in {<<>>} \cup {<<a>> : a \in ClearArguments},
                     f \in Allowed(GatewayFaults, "none") :
                    ToolCall("clear_memory", args, 0, f)
  \/ MoreTools /\ \E n \in UnknownNames, args \in {<<>>, <<EmptyObject>>} :
                    ToolCall(n, args, 0, "none")

SpecGateway == Init /\ [][NextGateway]_vars

---------------------------------------------------------------------------
(* Properties of the tool gateway *)

\* the last call was a tool call; what it answered
ToolCalled == "reply" \in DOMAIN last
Reply == last.reply

\* the store and its files are as the last call found them
StoreUntouched ==
  /\ memory = Pre.memory
  /\ memFile = Pre.memFile
  /\ ctxFile = Pre.ctxFile
  /\ backups = Pre.backups

\* the required arguments the last call leaves out, in the order of the schema
MissingArguments ==
  LET required == RequiredArguments(last.op)
  IN  {i \in 1..Len(required) : last.args[1][required[i]].val = <<>>}

\* the answer is the given message, by itself or as the message of an error text
Answers(message) ==
  /\ ~Reply.isError
  /\ \/ Reply.content = message
     \/ Reply.content = ErrorExecuting(last.op, message)

\* C25: a tool call that lacks a required argument is answered with "Missing
\* required argument: <name>" and does not reach the store: no store method is
\* called, the in-memory state and the files are unchanged
MissingArgumentIsRejected ==
  ToolCalled /\ last.op \in ToolNames /\ last.args # <<>> /\ MissingArguments # {} =>
    /\ \E i \in MissingArguments :
         Answers([error |-> "Missing required argument",
                  detail |-> [name |-> RequiredArguments(last.op)[i]]])
    /\ last.store = <<>>
    /\ StoreUntouched

\* C26: a status outside the enum is answered with "Invalid status: <value>"
\* and does not reach the store, and every stored component has a status of
\* the enum
StoredStatusesAreValid ==
  /\ ToolCalled /\ last.op = "update_implementation_status" /\ last.args # <<>>
       /\ last.args[1].status.val # <<>> /\ last.args[1].status.val[1] \notin StatusEnum =>
       /\ Answers([error |-> "Invalid status",
                   detail |-> [value |-> last.args[1].status.val[1]]])
       /\ last.store = <<>>
       /\ StoreUntouched
  /\ phase = "ready" =>
       \A i \in 1..Len(memory.implementation_status.components) :
         memory.implementation_status.components[i].value.status \in StatusEnum

\* C27: a progress outside 0..100 and a search limit outside 1..50 are answered
\* with "Progress must be between 0 and 100" and "Limit must be between 1 and
\* 50" and do not reach the store; every stored progress lies in 0..100 and
\* every search runs with a limit in 1..50
RangesAreEnforced ==
  /\ ToolCalled /\ last.op = "update_implementation_status" /\ last.args # <<>>
       /\ last.args[1].progress.val # <<>>
       /\ last.args[1].progress.val[1] \notin MinProgress..MaxProgress =>
       /\ Answers([error |-> "Progress must be between",
                   detail |-> [min |-> MinProgress, max |-> MaxProgress]])
       /\ last.store = <<>>
       /\ StoreUntouched
  /\ ToolCalled /\ last.op = "search_memory" /\ last.args # <<>>
       /\ last.args[1].limit.val # <<>>
       /\ last.args[1].limit.val[1] \notin MinLimit..MaxSearchLimit =>
       /\ Answers([error |-> "Limit must be between",
                   detail |-> [min |-> MinLimit, max |-> MaxSearchLimit]])
       /\ last.store = <<>>
  /\ phase = "ready" =>
       \A i \in 1..Len(memory.implementation_status.components) :
         memory.implementation_status.components[i].value.progress
           \in MinProgress..MaxProgress

\* the last call asked to clear the memory without confirm: true
Unconfirmed ==
  /\ ToolCalled
  /\ last.op = "clear_memory"
  /\ last.args # <<>> => last.args[1].confirm \in {Missing, Some(FALSE)}

EveryCallReturnsText ==
  ToolCalled =>
    /\ ~Reply.isError
    /\ ~last.result.ok =>
         Reply.content = ErrorExecuting(last.op, ErrorMessage(last.result))
    /\ last.op \in ToolNames \ {"get_project_context"} /\ last.args = <<>> =>
         /\ Reply.content.kind = "Error executing"
         /\ Reply.content.name = last.op
         /\ Reply.content.message.error = "TypeError"

\* a tool call whose save failed was answered with the error text
EveryCallReturnsTextSeen ==
  /\ ToolCalled
  /\ last.hit = "memWrite"
  /\ Reply = TextResult(ErrorExecuting(last.op, [error |-> "memWrite", detail |-> <<>>]))

\* C30: a tool call with a name outside the eight tools is answered with a text
\* that contains "Unknown tool: <name>", and the in-memory state and the files
\* are unchanged
UnknownToolIsNamed ==
  ToolCalled /\ last.op \notin ToolNames =>
    /\ Reply = TextResult(ErrorExecuting(last.op,
                 [error |-> "Unknown tool", detail |-> [name |-> last.op]]))
    /\ last.store = <<>>
    /\ StoreUntouched

\* an unknown tool was called on a store that holds a decision
UnknownToolIsNamedSeen ==
  /\ ToolCalled
  /\ last.op = "unknown_tool"
  /\ memory.architecture.decisions # <<>>
  /\ Reply.content.message.detail.name = "unknown_tool"

---------------------------------------------------------------------------
(* Properties of initialize, saveMemory and the frame of the calls *)

\* initialize() has returned and what it loaded is the default structure, built
\* because there was no file or the file could not be read
InitializedAnew ==
  /\ last.op = "initialize"
  /\ phase = "ready"
  /\ memory = DefaultMemory(config, clock)

\* C31: when no memory file exists or the existing one cannot be read,
\* initialize() has written the new default memory to the primary file by the
\* time it returns
InitializeWritesDefault ==
  InitializedAnew => memFile = <<ToJson(memory)>>

---------------------------------------------------------------------------
(* A specification of stores constructed on a directory that holds no       *)
(* memory file, with project type detection switched on or off.             *)

InitFresh ==
  /\ phase = "constructed"
  /\ \E configFile \in {<<>>, <<[auto_detect_project_type |-> FALSE]>>} :
       config = LoadConfig(configFile)
  /\ memFile = <<>>
  /\ backups = NoBackups
  /\ memory = [uninitialized |-> TRUE]
  /\ ctxFile = <<>>
  /\ clock = StartClock
  /\ calls = 0
  /\ made = 0
  /\ faulty = 0
  /\ inflight = <<>>
  /\ last = NoCall

SpecFresh == InitFresh /\ [][Next]_vars

\* the part of a path after its last separator
LastSegment(path) ==
  LET start == CHOOSE i \in 1..(Len(path) + 1) :
                 /\ \A k \in i..Len(path) : path[k] # "/"
                 /\ i = 1 \/ path[i - 1] = "/"
  IN  SubSeq(path, start, Len(path))

\* initialize() has returned on a directory without a memory file
FreshlyInitialized ==
  /\ last.op = "initialize"
  /\ phase = "ready"
  /\ memFile = <<>>

\* C32: a store freshly initialized with no prior memory file is named after the
\* last path segment of the project root, has version 1.0.0, type "unknown"
\* when auto-detection is disabled, and holds no components, decisions,
\* technologies, solutions, priorities or conversations
FreshStoreIsDefault ==
  FreshlyInitialized =>
    /\ Chars(memory.project_info.name) = LastSegment(Chars(ProjectRoot))
    /\ memory.metadata.version = "1.0.0"
    /\ ~config.auto_detect_project_type => memory.project_info.type = "unknown"
    /\ memory.implementation_status.components = <<>>
    /\ memory.architecture.decisions = <<>>
    /\ memory.architecture.technologies = <<>>
    /\ memory.working_solutions = JsonObject(<<>>)
    /\ memory.current_priorities = <<>>
    /\ memory.conversations = <<>>

\* a store with auto-detection disabled has been freshly initialized
FreshStoreIsDefaultSeen ==
  /\ FreshlyInitialized
  /\ ~config.auto_detect_project_type
  /\ memory.project_info.name = "proj"

\* the last call was a mutator whose save failed at the primary file, or between
\* the primary file and the snapshot
PrimaryWriteFailed == last.op \in Mutators /\ last.hit \in {"memWrite", "memWriteTrunc"}
SnapshotWriteFailed == last.op \in Mutators /\ last.hit \in {"ctxWrite", "ctxWriteTrunc"}

\* the backup clearMemory takes of the old state before it clears
TookClearBackup == last.op = "clearMemory" /\ last.args.createBackup

\* saveMemory has written no backup in the last call: the backups directory is
\* as the call found it, or differs by the backup clearMemory took of the old
\* state (cut short when that write failed half way)
NoSaveBackup ==
  IF TookClearBackup
    THEN \A t \in DOMAIN backups :
           t \notin DOMAIN Pre.backups \/ backups[t] # Pre.backups[t]
             => \/ backups[t] = ToJson(Pre.memory)
                \/ last.preHit = "bkWriteTrunc" /\ backups[t] = Corrupt
    ELSE backups = Pre.backups

\* C33: saveMemory bumps last_updated, writes the primary file, then the
\* snapshot, then (only if backup_enabled) a backup: a failed primary write
\* leaves snapshot and backups unwritten, a failure between primary and
\* snapshot leaves only the snapshot stale, and a call that has written the
\* snapshot has written the same state to the primary file
SaveStepsInOrder ==
  /\ PrimaryWriteFailed =>
       /\ memory.metadata.last_updated = clock
       /\ ctxFile = Pre.ctxFile
       /\ NoSaveBackup
  /\ SnapshotWriteFailed =>
       /\ memFile = <<ToJson(memory)>>
       /\ last.hit = "ctxWrite" => ctxFile = Pre.ctxFile
       /\ NoSaveBackup
  /\ last.op \in Mutators /\ ctxFile # Pre.ctxFile /\ ctxFile # <<Corrupt>> =>
       /\ memFile = <<ToJson(memory)>>
       /\ ctxFile = <<ContextToJson(getCurrentContext(memory))>>
  /\ last.op \in Mutators /\ ~config.backup_enabled => NoSaveBackup
  /\ last.op \in Mutators /\ config.backup_enabled /\ last.result.ok
       /\ last.hit = "none" =>
       /\ clock \in DOMAIN backups
       /\ backups[clock] = ToJson(memory)

\* a primary write failed in a call that changed what the snapshot should hold,
\* on a store with backups enabled
SaveStepsInOrderSeen ==
  /\ PrimaryWriteFailed
  /\ config.backup_enabled
  /\ Pre.ctxFile # <<>>
  /\ ctxFile # <<ContextToJson(getCurrentContext(memory))>>
  /\ last.op = "updatePriorities"

\* the last call was a clearMemory that threw for an unknown scope
RejectedClear ==
  /\ last.op = "clearMemory"
  /\ ~last.result.ok
  /\ last.result.error = "Unknown scope"

\* C34: a clearMemory call rejected for an unknown scope has no effect, with
\* createBackup true or false: the in-memory state, the primary file, the
\* snapshot file and the set of backup files are as before the call
RejectedClearHasNoEffect ==
  RejectedClear =>
    /\ memory = Pre.memory
    /\ memFile = Pre.memFile
    /\ ctxFile = Pre.ctxFile
    /\ backups = Pre.backups
    /\ DOMAIN backups = DOMAIN Pre.backups

---------------------------------------------------------------------------
(* calculateRelevance on its own: the query and the text are drawn when the *)
(* behaviour starts, and the one step applies the routine to them           *)

InitRelevance ==
  /\ phase = "constructed"
  /\ config = DefaultConfig
  /\ memFile = <<>>
  /\ backups = NoBackups
  /\ memory = [uninitialized |-> TRUE]
  /\ ctxFile = <<>>
  /\ clock = StartClock
  /\ calls = 0
  /\ made = 0
  /\ faulty = 0
  /\ inflight = <<>>
  /\ \E query \in {"", "query", " query", "query ", "q  y", "test", "exact match", "react"},
        text \in {"", "some content", " some content", "some content ", "some  content",
                  "testing framework", "exact match", "Use React"} :
       last = [NoCall EXCEPT !.args = [query |-> query, text |-> text]]

CalculateRelevance ==
  /\ last.op = "none"
  /\ last' = [last EXCEPT !.op = "calculateRelevance",
                          !.result = Returned(<<calculateRelevance(Chars(last.args.query),
                                                                   Chars(last.args.text))>>)]
  /\ UNCHANGED <<phase, config, memory, memFile, ctxFile, backups, clock, calls, made, faulty, inflight>>

SpecRelevance == InitRelevance /\ [][CalculateRelevance]_vars

\* C35: calculateRelevance returns a well-defined number, at least 0, for every
\* query and text, the empty ones and those with leading, trailing or
\* consecutive spaces included
RelevanceIsWellDefined ==
  last.op = "calculateRelevance" =>
    /\ last.result.value[1] # NaN
    /\ last.result.value[1].den > 0
    /\ last.result.value[1].num >= 0

---------------------------------------------------------------------------
(* A specification for the frames of the calls: statuses of two components  *)
(* are set and decisions recorded, each call a millisecond after the        *)
(* previous one, and the store is read in between.                          *)

MaxFrameCalls == 3     \* calls after initialize() in one behaviour of SpecFrame

NextFrame ==
  \/ Initialize("none")
  \/ /\ calls < MaxFrameCalls
     /\ \E a \in {[component |-> "api", status |-> "complete", details |-> Undef,
                   progress |-> Some(100)],
                  [component |-> "web", status |-> "blocked", details |-> Some("wip"),
                   progress |-> Undef]},
           f \in {"none", "memWrite"} :
          UpdateImplementationStatus(a, 1, f)
  \/ /\ calls < MaxFrameCalls
     /\ \E a \in SearchDecisionInputs, r \in RandomValues :
          AddArchitectureDecision(a, r, 1, "none")
  \/ calls < MaxFrameCalls /\ GetCurrentContext
  \/ /\ calls < MaxFrameCalls
     /\ \E q \in QueryInputs, l \in LimitInputs : SearchMemory(q, l)

SpecFrame == Init /\ [][NextFrame]_vars

\* the entries of a components object under the keys other than key, in order
Others(comps, key) ==
  Filter(comps, [i \in 1..Len(comps) |-> comps[i].key # key])

\* C36: updateImplementationStatus(component, ...) changes only
\* components[component] and metadata.last_updated: every other component
\* record, overall_progress, decisions, working solutions, priorities,
\* technologies, conversations and project_info are as before the call
StatusUpdateFrame ==
  last.op = "updateImplementationStatus" =>
    /\ Others(memory.implementation_status.components, last.args.component)
         = Others(Pre.memory.implementation_status.components, last.args.component)
    /\ memory.implementation_status.overall_progress
         = Pre.memory.implementation_status.overall_progress
    /\ memory.architecture = Pre.memory.architecture
    /\ memory.working_solutions = Pre.memory.working_solutions
    /\ memory.current_priorities = Pre.memory.current_priorities
    /\ memory.conversations = Pre.memory.conversations
    /\ memory.project_info = Pre.memory.project_info
    /\ memory.metadata.version = Pre.memory.metadata.version
    /\ memory.metadata.created_at = Pre.memory.metadata.created_at
    /\ DOMAIN memory = DOMAIN Pre.memory

\* a status was set in a store that holds another component and a decision
StatusUpdateFrameSeen ==
  /\ last.op = "updateImplementationStatus"
  /\ Others(Pre.memory.implementation_status.components, last.args.component) # <<>>
  /\ Pre.memory.architecture.decisions # <<>>
  /\ memory.implementation_status.components # Pre.memory.implementation_status.components

Reads == {"getCurrentContext", "searchMemory"}

\* a step in which a read is called leaves the store and the files alone, and
\* repeats the result of the call before it when that was the same read
ReadStep ==
  last'.op \in Reads /\ calls' = calls + 1 =>
    /\ memory' = memory
    /\ memFile' = memFile
    /\ ctxFile' = ctxFile
    /\ backups' = backups
    /\ last.op = last'.op /\ last.args = last'.args => last'.result = last.result

\* C37: getCurrentContext and searchMemory are pure reads: a call changes
\* neither the in-memory state nor any file, and a call repeated with no
\* mutator in between returns an equal result
ReadsArePure == [][ReadStep]_vars

\* only reads have been called on a stored project, the last one a search
\* that found a record
ReadsArePureSeen ==
  /\ calls = MaxFrameCalls
  /\ faulty = 0
  /\ inflight = <<>>
  /\ memFile = <<StoredMemory>>
  /\ ctxFile = <<>>
  /\ Searched
  /\ Found # <<>>

---------------------------------------------------------------------------
(* Overlapping calls.  A call runs from its first line to its first await   *)
(* in one step; every await is a file operation, and the call goes on, up   *)
(* to its next await, in the step in which that operation completes.  The   *)
(* file operations of different calls complete in any order.  inflight      *)
(* holds a record per call started:                                         *)
(*   pc        the file operation awaited: memWrite, ctxWrite (saveMemory), *)
(*             bkDir, bkWrite, bkList, bkRemove (createBackup), or done     *)
(*   content   what the awaited write was handed, serialized when issued    *)
(*   raced     another write of the same file completed while this one was  *)
(*             under way                                                    *)
(*   after     what follows the backup: the switch of clearMemory (clear)   *)
(*             or the end of saveMemory (finish)                            *)
(*   at        the millisecond in which the call assigned to this.memory    *)

MaxOverlap == 2        \* calls started in one behaviour of SpecOverlap

OverlapCalls ==
  {[op |-> "updateImplementationStatus", rnd |-> 0,
    args |-> [component |-> "api", status |-> "complete", details |-> Undef,
              progress |-> Some(100)]],
   [op |-> "updatePriorities", rnd |-> 0, args |-> <<"ship v1">>]}
  \cup {[op |-> "addArchitectureDecision", rnd |-> 0, args |-> a] : a \in DecisionInputs}
  \cup {[op |-> "addWorkingSolution", rnd |-> 0, args |-> a] : a \in SolutionInputs}
  \cup {[op |-> "logConversationContext", rnd |-> 0, args |-> a] : a \in ConversationInputs}
  \cup {[op |-> "clearMemory", rnd |-> 0, args |-> [scope |-> s, createBackup |-> b]] :
          s \in {"all", "decisions", "bogus"}, b \in BOOLEAN}

\* this.memory as the call (op, a) leaves it at its first await in saveMemory,
\* having found it as m and read the clock at `at`
MutatedFrom(m, op, a, rnd, at) ==
  LET w == [memory |-> m, memFile |-> <<>>, ctxFile |-> <<>>, backups |-> NoBackups,
            clock |-> at, made |-> 0, preHit |-> "none", hit |-> "none",
            result |-> Returned(<<>>)]
  IN  CASE op = "updateImplementationStatus" ->
             updateImplementationStatus(w, config, a, "memWrite").memory
        [] op = "addArchitectureDecision" ->
             addArchitectureDecision(w, config, a, rnd, "memWrite").memory
        [] op = "addWorkingSolution" ->
             addWorkingSolution(w, config, a, rnd, "memWrite").memory
        [] op = "updatePriorities" ->
             updatePriorities(w, config, a, "memWrite").memory
        [] op = "logConversationContext" ->
             logConversationContext(w, config, a, rnd, "memWrite").memory
        [] op = "clearMemory" ->
             clearMemory(w, config, [a EXCEPT !.createBackup = FALSE], 0, "none",
                         "memWrite").memory

\* a mutator that works on the store as it was before the calls overlapped
EnteredOnBase(m, op, a, rnd, at) ==
  MutatedFrom(IF last.pre = <<>> THEN m ELSE last.pre[1].memory, op, a, rnd, at)

\* the synchronous stretch of a mutator: it assigns to this.memory itself
Entered(m, op, a, rnd, at) == MutatedFrom(m, op, a, rnd, at)

Flight(c) ==
  [op |-> c.op, args |-> c.args, rnd |-> c.rnd, at |-> 0, pc |-> "done",
   content |-> <<>>, raced |-> FALSE, stamp |-> 0, removing |-> {}, after |-> "finish",
   ok |-> TRUE]

\* the store and the files in the middle of a step, with the call that runs
Sys ==
  [memory |-> memory, memFile |-> memFile, ctxFile |-> ctxFile, backups |-> backups,
   made |-> made, flight |-> <<>>]

\* saveMemory up to its first await: m is this.memory with last_updated bumped
Saving(s, f, at, m) ==
  [s EXCEPT !.memory = m,
            !.flight = [f EXCEPT !.at = at, !.pc = "memWrite", !.content = <<ToJson(m)>>,
                                 !.raced = FALSE]]

\* the call from its mutation to the await of the primary write; the default
\* arm of clearMemory's switch throws instead
Mutate(s, f, at) ==
  IF f.op = "clearMemory" /\ ~IsValidScope(f.args.scope)
    THEN [s EXCEPT !.flight = [f EXCEPT !.pc = "done", !.ok = FALSE]]
    ELSE Saving(s, f, at, Entered(s.memory, f.op, f.args, f.rnd, at))

\* createBackup has returned
AfterBackup(s, f, now) ==
  IF f.after = "clear"
    THEN Mutate(s, [f EXCEPT !.after = "finish"], now)
    ELSE [s EXCEPT !.flight = [f EXCEPT !.pc = "done"]]

Latest(names) == CHOOSE t \in names : \A u \in names : u <= t

\* the file operation the call f awaits completes, and f runs to its next await
Completed(s, f, now, outcome) ==
  CASE f.pc = "memWrite" ->
         IF outcome = "fail"
           THEN [s EXCEPT !.flight = [f EXCEPT !.pc = "done", !.ok = FALSE]]
           ELSE [s EXCEPT !.memFile = <<(IF outcome = "torn" THEN Corrupt ELSE f.content[1])>>,
                          !.flight = [f EXCEPT
                                        !.pc = "ctxWrite",
                                        !.content =
                                          <<ContextToJson(getCurrentContext(s.memory))>>,
                                        !.raced = FALSE]]
    [] f.pc = "ctxWrite" ->
         [s EXCEPT !.ctxFile = <<(IF outcome = "torn" THEN Corrupt ELSE f.content[1])>>,
                   !.flight = IF config.backup_enabled
                                THEN [f EXCEPT !.pc = "bkDir", !.raced = FALSE]
                                ELSE [f EXCEPT !.pc = "done"]]
    [] f.pc = "bkDir" ->
         [s EXCEPT !.flight = [f EXCEPT !.pc = "bkWrite", !.stamp = now,
                                        !.content = <<ToJson(s.memory)>>,
                                        !.raced = FALSE]]
    [] f.pc = "bkWrite" ->
         [s EXCEPT !.backups = PutFile(@, f.stamp,
                                       IF outcome = "torn" THEN Corrupt ELSE f.content[1]),
                   !.made = @ + 1,
                   !.flight = [f EXCEPT !.pc = "bkList"]]
    [] f.pc = "bkList" ->
         IF DOMAIN s.backups = Newest(DOMAIN s.backups)
           THEN AfterBackup(s, f, now)
           ELSE [s EXCEPT !.flight = [f EXCEPT !.pc = "bkRemove",
                                       !.removing = DOMAIN s.backups
                                                      \ Newest(DOMAIN s.backups)]]
    [] f.pc = "bkRemove" ->
         IF f.removing = {Latest(f.removing)}
           THEN AfterBackup([s EXCEPT !.backups = [t \in DOMAIN @ \ {Latest(f.removing)} |-> @[t]]],
                            [f EXCEPT !.removing = {}], now)
           ELSE [s EXCEPT !.backups = [t \in DOMAIN @ \ {Latest(f.removing)} |-> @[t]],
                          !.flight = [f EXCEPT !.removing = @ \ {Latest(@)}]]

\* a call starts: clearMemory with createBackup awaits its backup first, every
\* other call mutates and awaits the primary write
Started(c) ==
  IF c.op = "clearMemory" /\ c.args.createBackup
    THEN [Sys EXCEPT !.flight = [Flight(c) EXCEPT !.pc = "bkDir", !.after = "clear"]]
    ELSE Mutate(Sys, Flight(c), clock + 1)

Starting(r) ==
  /\ memory' = r.memory
  /\ UNCHANGED <<memFile, ctxFile, backups, made>>
  /\ inflight' = Append(inflight, r.flight)

StartCall(c) ==
  /\ phase = "ready"
  /\ Len(inflight) < MaxOverlap
  /\ clock' = clock + 1
  /\ calls' = calls + 1
  /\ last' = IF inflight = <<>>
               THEN [NoCall EXCEPT !.op = "overlap", !.pre = <<Snapshot>>]
               ELSE last
  /\ Starting(Started(c))
  /\ UNCHANGED <<phase, config, faulty>>

\* the effects of a stretch; a write that has changed its file has raced with
\* the writes of the same file that are still under way
Resuming(i, ran, r) ==
  /\ memory' = r.memory
  /\ memFile' = r.memFile
  /\ ctxFile' = r.ctxFile
  /\ backups' = r.backups
  /\ made' = r.made
  /\ inflight' = [j \in 1..Len(inflight) |->
                    IF j = i THEN r.flight
                    ELSE IF /\ ran
                            /\ inflight[i].pc \in {"memWrite", "ctxWrite", "bkWrite"}
                            /\ inflight[j].pc = inflight[i].pc
                            /\ inflight[i].pc = "bkWrite"
                                 => inflight[j].stamp = inflight[i].stamp
                      THEN [inflight[j] EXCEPT !.raced = TRUE]
                      ELSE inflight[j]]

Resume(i, outcome) ==
  /\ inflight[i].pc # "done"
  /\ outcome = "fail" => inflight[i].pc = "memWrite" /\ faulty < MaxFaultyCalls
  /\ outcome = "torn" =>
       inflight[i].pc \in {"memWrite", "ctxWrite", "bkWrite"} /\ inflight[i].raced
  /\ faulty' = IF outcome = "fail" THEN faulty + 1 ELSE faulty
  /\ Resuming(i, outcome # "fail", Completed(Sys, inflight[i], clock, outcome))
  /\ UNCHANGED <<phase, config, clock, calls, last>>

NextOverlap ==
  \/ Initialize("none")
  \/ \E c \in OverlapCalls : StartCall(c)
  \/ \E i \in 1..Len(inflight), outcome \in {"ok", "fail", "torn"} : Resume(i, outcome)

SpecOverlap == Init /\ [][NextOverlap]_vars

---------------------------------------------------------------------------
(* Properties of overlapping calls *)

\* every call of the behaviour has started and has returned or thrown
AllDone ==
  /\ Len(inflight) = MaxOverlap
  /\ \A i \in 1..Len(inflight) : inflight[i].pc = "done"

\* the store before the first of the calls started
Base == last.pre[1].memory

\* the orders of the calls in which the clock readings do not decrease
Orders ==
  {p \in [1..Len(inflight) -> 1..Len(inflight)] :
     /\ \A k, l \in 1..Len(inflight) : k # l => p[k] # p[l]
     /\ \A k, l \in 1..Len(inflight) : k < l => inflight[p[k]].at <= inflight[p[l]].at}

\* the calls made one after the other, in the order p from its k-th on, on m
RECURSIVE OneByOne(_, _, _)
OneByOne(m, p, k) ==
  IF k > Len(inflight) THEN m
  ELSE OneByOne(MutatedFrom(m, inflight[p[k]].op, inflight[p[k]].args, inflight[p[k]].rnd,
                            inflight[p[k]].at),
                p, k + 1)

\* C38: when mutator calls overlap no in-memory update is lost: after all of
\* them have completed the in-memory state is the one that making the calls
\* one after the other, in some order, leaves
NoUpdateLost ==
  AllDone => \E p \in Orders : memory = OneByOne(Base, p, 1)

\* a clearMemory of the decisions waited for its backup while a decision was
\* recorded, and cleared afterwards
NoUpdateLostSeen ==
  /\ AllDone
  /\ inflight[1].op = "clearMemory"
  /\ inflight[1].args = [scope |-> "decisions", createBackup |-> TRUE]
  /\ inflight[2].op = "addArchitectureDecision"
  /\ inflight[1].at >= inflight[2].at
  /\ inflight[2].at > 0
  /\ Base.architecture.decisions # <<>>
  /\ memory.architecture.decisions = <<>>

\* C39: when mutator calls overlap and all complete successfully, the primary
\* file ends up equal to the final in-memory state
LastWriteIsCurrent ==
  AllDone /\ (\A i \in 1..Len(inflight) : inflight[i].ok) =>
    memFile = <<ToJson(memory)>>

====
